---- MODULE Spec2Model ----
(***************************************************************************)
(* A model of the task-fused streaming engine of plumed2:                  *)
(*   core/ActionWithVector.{h,cpp}  chain fusion, stream layout, the       *)
(*                                  forward task executor, the force pass  *)
(* Nodes are the ActionWithVector objects of the ActionSet, numbered in    *)
(* the order of their construction; a node's number stands for its label   *)
(* (labels are unique in the ActionSet).  A Value is named by the pair     *)
(* <<owner node, component index>>.                                        *)
(***************************************************************************)
EXTENDS Integers, Sequences, FiniteSets, TLC

\* ------------------------------------------------------------------ bounds
MaxNodes == 3
MaxArgs  == 2

\* The largest number of steps of a calculation after the first one.
MaxSweeps == 2
MaxComps == 2
MaxTasks == 41
MaxProcs == 2
MaxThreads == 2

\* The last step of a calculation, the update() calls that are counted and
\* the runFinalJobs() calls that are made.
MaxStep == 2
MaxWrites == 2
MaxFinals == 2

\* ------------------------------------------------------- program constants
NULL == 0
\* if( nt*stride*10>nactive_tasks ) nt=nactive_tasks/stride/10;
ThreadGrain == 10

Nodes == 1..MaxNodes

VARIABLES
  nnodes,               \* number of nodes constructed so far (the ActionSet)
  comps,                \* comps[n]: the Values (components) node n owns
  args,                 \* args[n]: the argument Values of node n, <<owner, index>>
  natoms,               \* natoms[n]: getNumberOfAtoms() of node n
  cannotFollow,         \* cannotFollow[n]: the nodes av with n.canBeAfterInChain(av) = false
  done_in_chain,        \* done_in_chain[n]
  action_to_do_before,  \* action_to_do_before[n], NULL when none
  action_to_do_after,   \* action_to_do_after[n], NULL when none
  arg_der_start,        \* arg_der_start[n][c] of component c of node n
  nderivatives,         \* nderivatives[n]: what buildArgumentStore returned to node n
  err,                  \* "none", or the fatal error that ended the program
  last,                 \* the last call made and what it returned
  ntasks,               \* what the last getNumberOfTasks left in its ntasks
  bufsize,              \* what the last getSizeOfBuffer left in its bufsize
  nprocs,               \* comm.Get_size()
  desired,              \* OpenMP::getNumThreads()
  serial,               \* the SERIAL flag
  pc,                   \* "idle", "parallel" (inside the omp parallel region), "finished"
  mode,                 \* "none", "forward" (runAllTasks) or "forces" (checkForForces)
  rank,                 \* comm.Get_rank() of the process whose region is running
  nt,                   \* the number of threads of the region
  head,                 \* the node runAllTasks was last called on
  nactive_tasks,        \* the member nactive_tasks of that node
  buffer,               \* buffer[p]: the member buffer of the process of rank p
  forcesForApply,       \* forcesForApply[p]: the member forcesForApply of rank p
  omp_buffer,           \* omp_buffer[t]: omp_buffer / omp_forces of thread t
  tpc,                  \* tpc[t]: "loop", "critical" (inside omp critical), "done"
  iter,                 \* iter[t]: the iterations of the loop thread t has run
  sched,                \* how the omp for hands its iterations to the threads
  ranby,                \* ranby[p][i]: the threads of rank p that ran task i
  ranforces,            \* the same for the tasks of checkForForces
  step,                 \* the last step of a pass, and the buffer it wrote to
  streampos,            \* streampos[v]: the member streampos of the Value v
  nquantities,          \* what the last getNumberOfStreamedQuantities left in nquants
  nderiv,               \* what the last getNumberOfStreamedDerivatives computed
  active,               \* active[n]: isActive() of node n
  calc,                 \* the number of nodes whose calculate() has returned
  phase,                \* where the one thread is in the body of the task loop
  itask,                \* the loop variable i of the task loop
  myvals,               \* the MultiValue of the thread
  trace,                \* the calls made for the task so far, <<function, node>>
  touched,              \* the elements of buffer the last gather or finish used
  data,                 \* data[v]: the member data of the Value v
  value_set,            \* value_set[v]: valueHasBeenSet() of the Value v
  nactive_of,           \* nactive_of[n]: the member nactive_tasks of node n
  hasForce,             \* hasForce[v]: forcesWereAdded() of the Value v
  applying,             \* the number of nodes whose apply() has returned
  applied,              \* what the last apply() did
  atomForces,           \* atomForces[n]: what setForcesOnAtoms last gave node n
  argForces,            \* argForces[v]: the force the Value v was given as an argument
  contrib,              \* what the calls of gatherForces of the pass added, summed
  matrix,               \* a matrix node, its arguments and the row it has reached
  rowjobs,              \* what the last runEndOfRowJobs did
  rmsd,                 \* the input of a PARABETARMSD action
  segments,             \* the segments its constructor made, in order
  sweep,                \* the number of times every node has been calculated
  print,                \* a PRINT action: its style, stride and printAtEnd
  clock,                \* getStep(): the step the calculation has reached
  written               \* how often the PRINT action wrote, by the caller of update()

chainVars == <<nnodes, comps, args, natoms, cannotFollow, done_in_chain,
               action_to_do_before, action_to_do_after, arg_der_start,
               nderivatives, err, last>>

layoutVars == <<ntasks, bufsize>>

runVars == <<nprocs, desired, serial, pc, mode, rank, nt, head, nactive_tasks, buffer,
             forcesForApply, omp_buffer, tpc, iter, sched, ranby, ranforces, step>>

streamVars == <<streampos, nquantities, nderiv>>

taskVars == <<active, calc, phase, itask, myvals, trace, touched, data, value_set>>

forceVars == <<nactive_of, hasForce, applying, applied, atomForces, argForces,
               contrib>>

\* What the stream layout calls leave alone.
otherVars == <<taskVars, forceVars>>

rowVars == <<matrix, rowjobs>>

segmentVars == <<rmsd, segments>>

sweepVars == <<sweep>>

printVars == <<print, clock, written>>

\* The state of the parts of the engine a specification may leave alone.
extVars == <<streamVars, otherVars, rowVars, segmentVars, sweepVars, printVars>>

vars == <<chainVars, layoutVars, runVars, extVars>>

\* ------------------------------------------------------------------ helpers
InSeq(x, s) == \E i \in 1..Len(s) : s[i] = x

SeqsUpTo(S, k) == UNION { [1..m -> S] : m \in 0..k }

\* A Value as the chain code sees it.
MkValue(r, d, s, cst) ==
  [rank |-> r, hasDeriv |-> d, shape0 |-> s,
   nvals |-> IF r = 0 THEN 1 ELSE s, constant |-> cst, stored |-> FALSE,
   bufstart |-> 0]

ValueOf(cmp, v) == cmp[v[1]][v[2]]

\* ------------------------------------------------- ActionWithVector (chain)

\* virtual bool canBeAfterInChain( ActionWithVector* av ): true unless a
\* subclass overrides it; cannotFollow[n] is the override of node n.
CanBeAfterInChain(n, av) == av \notin cannotFollow[n]

RECURSIVE GetFirstActionInChain(_, _)
GetFirstActionInChain(bef, n) ==
  IF bef[n] = NULL THEN n ELSE GetFirstActionInChain(bef, bef[n])

RECURSIVE GetAllActionLabelsInChain(_, _, _)
GetAllActionLabelsInChain(aft, n, mylabels) ==
  LET ml == IF InSeq(n, mylabels) THEN mylabels ELSE Append(mylabels, n)
  IN  IF aft[n] # NULL THEN GetAllActionLabelsInChain(aft, aft[n], ml) ELSE ml

\* Mutant: only the label of the first action of the chain is compared.
AlreadyInChain_OnlyHead(act, mylabels) == Len(mylabels) > 0 /\ mylabels[1] = act

\* Lines 126-128: the label of act is one of the labels of the chain.
AlreadyInChain(act, mylabels) == InSeq(act, mylabels)

\* Lines 138-141: every component of the action with label av is stored.
StoringAll(cmp, av) == \A j \in 1..Len(cmp[av]) : cmp[av][j].stored

\* Mutant: the test of storingall is inverted.
RequiredMissing_Inverted(cmp, alabels, mylabels) ==
  \E i \in 1..Len(alabels) :
     ~InSeq(alabels[i], mylabels) /\ StoringAll(cmp, alabels[i])

\* Lines 131-144: a required label is neither in the chain nor the label of
\* an action that stores all it computes.
RequiredMissing(cmp, alabels, mylabels) ==
  \E i \in 1..Len(alabels) :
     ~InSeq(alabels[i], mylabels) /\ ~StoringAll(cmp, alabels[i])

\* The pairwise check of addActionToChain over the labels now in the chain.
OrderViolated(mylabels) ==
  \E i \in 1..Len(mylabels) : \E j \in 1..(i - 1) :
     ~CanBeAfterInChain(mylabels[i], mylabels[j])

\* Mutant: act->action_to_do_before is not set.
LinkAfter_NoBackLink(bef, aft, x, act, mylabels) ==
  [bef |-> bef, aft |-> [aft EXCEPT ![x] = act], res |-> "true", mylabels |-> mylabels]

\* Mutant: the new node is linked after the first action of the chain.
LinkAfter_Head(bef, aft, x, act, mylabels) ==
  [bef |-> [bef EXCEPT ![act] = mylabels[1]], aft |-> [aft EXCEPT ![mylabels[1]] = act],
   res |-> "true", mylabels |-> mylabels]

\* The last statements of addActionToChain: the link.
LinkAfter(bef, aft, x, act, mylabels) ==
  [bef |-> [bef EXCEPT ![act] = x], aft |-> [aft EXCEPT ![x] = act],
   res |-> "true", mylabels |-> mylabels]

\* bool addActionToChain( alabels, act ) called on node x.  res is what the
\* call returns ("true", "false") or "error" when error() throws.
RECURSIVE AddActionToChain(_, _, _, _, _, _)
AddActionToChain(cmp, bef, aft, x, alabels, act) ==
  IF aft[x] # NULL THEN AddActionToChain(cmp, bef, aft, aft[x], alabels, act)
  ELSE
    LET mylabels == GetAllActionLabelsInChain(aft, GetFirstActionInChain(bef, x), <<>>)
        same(r)  == [bef |-> bef, aft |-> aft, res |-> r, mylabels |-> mylabels]
    IN  IF AlreadyInChain(act, mylabels) THEN same("true")
        ELSE IF RequiredMissing(cmp, alabels, mylabels) THEN same("false")
        ELSE IF OrderViolated(mylabels) THEN same("error")
        ELSE LinkAfter(bef, aft, x, act, mylabels)

\* Mutant: the nine derivatives of the virial are left out.
AtomDerivatives_NoVirial(na) == IF na > 0 THEN 3 * na ELSE 0

\* Line 286: if( getNumberOfAtoms()>0 ) nderivatives += 3*getNumberOfAtoms() + 9;
AtomDerivatives(na) == IF na > 0 THEN 3 * na + 9 ELSE 0

\* void getNumberOfStreamedDerivatives( sderivatives, nder ) from node n on:
\* the arg_der_start of every component it passes, the final nder and
\* sderivatives, and in ent the nder each node was called with.
RECURSIVE GetNumberOfStreamedDerivatives(_, _, _, _, _, _, _, _)
GetNumberOfStreamedDerivatives(cmp, arg, nat, aft, n, sderivatives, nder, ads) ==
  LET ads1 == [ads EXCEPT ![n] = [i \in 1..Len(cmp[n]) |-> sderivatives]]
      RECURSIVE storedArgs(_)
      storedArgs(i) ==
        IF i > Len(arg[n]) THEN 0
        ELSE (IF ValueOf(cmp, arg[n][i]).stored THEN ValueOf(cmp, arg[n][i]).nvals ELSE 0)
             + storedArgs(i + 1)
      nd   == nder + storedArgs(1) + AtomDerivatives(nat[n])
      sd   == IF nder > 0 /\ nd - nder > 0 THEN nd ELSE sderivatives
  IN  IF aft[n] # NULL
      THEN LET r == GetNumberOfStreamedDerivatives(cmp, arg, nat, aft, aft[n], sd, nd, ads1)
           IN  [r EXCEPT !.entry[n] = nder]
      ELSE [ads |-> ads1, nder |-> nd, sder |-> sd,
            entry |-> [k \in Nodes |-> IF k = n THEN nder ELSE 0]]

\* ---- buildArgumentStore( argstart ), its loops one operator each ----

\* Lines 74-76: grids are never streamed.
GridArgument(cmp, as, argstart) ==
  \E i \in (argstart + 1)..Len(as) :
     ValueOf(cmp, as[i]).rank > 0 /\ ValueOf(cmp, as[i]).hasDeriv

\* Lines 79-84: the distinct labels of the arguments' actions.
RECURSIVE ArgLabels(_, _, _)
ArgLabels(as, i, alabels) ==
  IF i > Len(as) THEN alabels
  ELSE ArgLabels(as, i + 1,
                 IF InSeq(as[i][1], alabels) THEN alabels ELSE Append(alabels, as[i][1]))

\* Lines 86-96: the heads of the chains of the streamed rank>0 arguments.
RECURSIVE FActions(_, _, _, _, _)
FActions(cmp, bef, as, i, f_actions) ==
  IF i > Len(as) THEN f_actions
  ELSE LET v     == ValueOf(cmp, as[i])
           myact == GetFirstActionInChain(bef, as[i][1])
       IN  IF v.constant THEN FActions(cmp, bef, as, i + 1, f_actions)
           ELSE IF ~InSeq(myact, f_actions) /\ ~v.stored /\ v.rank > 0
                THEN FActions(cmp, bef, as, i + 1, Append(f_actions, myact))
                ELSE FActions(cmp, bef, as, i + 1, f_actions)

\* Lines 99-102: every other head is put in the chain of the first one; the
\* value addActionToChain returns is dropped, an error() propagates.
RECURSIVE MergeChains(_, _, _, _, _)
MergeChains(cmp, bef, aft, f_actions, i) ==
  IF i > Len(f_actions) THEN [bef |-> bef, aft |-> aft, res |-> "true"]
  ELSE LET r == AddActionToChain(cmp, bef, aft, f_actions[1], <<f_actions[1]>>, f_actions[i])
       IN  IF r.res = "error" THEN [bef |-> r.bef, aft |-> r.aft, res |-> "error"]
           ELSE MergeChains(cmp, r.bef, r.aft, f_actions, i + 1)

\* Lines 104-111: this is offered to the chain of each rank>0 argument in
\* turn, until one takes it; tried counts the calls that returned false.
RECURSIVE AddThis(_, _, _, _, _, _, _, _)
AddThis(cmp, bef, aft, this, as, alabels, i, tried) ==
  IF i > Len(as) THEN [bef |-> bef, aft |-> aft, res |-> "false", tried |-> tried]
  ELSE LET v == ValueOf(cmp, as[i])
       IN  IF v.rank > 0 /\ ~v.constant
           THEN LET r == AddActionToChain(cmp, bef, aft, as[i][1], alabels, this)
                IN  IF r.res = "false"
                    THEN AddThis(cmp, bef, aft, this, as, alabels, i + 1, tried + 1)
                    ELSE [bef |-> r.bef, aft |-> r.aft, res |-> r.res, tried |-> tried]
           ELSE AddThis(cmp, bef, aft, this, as, alabels, i + 1, tried)

\* Line 116: the non-chained path stores every rank>0 argument.
BuildDataStores(cmp, as, argstart) ==
  [n \in Nodes |->
     [c \in 1..Len(cmp[n]) |->
        IF \E i \in (argstart + 1)..Len(as) : as[i] = <<n, c>> /\ cmp[n][c].rank > 0
        THEN [cmp[n][c] EXCEPT !.stored = TRUE] ELSE cmp[n][c]]]

\* Line 117: the derivatives of a non-chained node.
RECURSIVE SumOfValues(_, _, _)
SumOfValues(cmp, as, i) ==
  IF i > Len(as) THEN 0 ELSE ValueOf(cmp, as[i]).nvals + SumOfValues(cmp, as, i + 1)

\* unsigned buildArgumentStore( argstart ) of node this, whose components
\* cmp[this] and arguments arg[this] its constructor has already made.
\* res: "chained", "stored" (the non-chained path), "notadded" (added is
\* false after the loop of lines 105-111) or "order" (error() thrown by
\* addActionToChain).
BuildArgumentStore(cmp, arg, nat, bef, aft, ads, this, argstart, dic) ==
  LET as   == arg[this]
      dic1 == dic /\ ~GridArgument(cmp, as, argstart)
      keep(r) == [cmp |-> cmp, bef |-> bef, aft |-> aft, ads |-> ads,
                  dic |-> dic1, nder |-> 0, res |-> r, tried |-> 0]
  IN
  IF dic1 THEN
    LET alabels   == ArgLabels(as, argstart + 1, <<>>)
        f_actions == FActions(cmp, bef, as, argstart + 1, <<>>)
        m == MergeChains(cmp, bef, aft, f_actions, 2)
    IN  IF m.res = "error" THEN [keep("order") EXCEPT !.bef = m.bef, !.aft = m.aft]
        ELSE
          LET a == AddThis(cmp, m.bef, m.aft, this, as, alabels, argstart + 1, 0)
          IN  IF a.res = "error" THEN [keep("order") EXCEPT !.bef = m.bef, !.aft = m.aft]
              ELSE IF a.res = "false"
                   THEN [keep("notadded") EXCEPT !.bef = m.bef, !.aft = m.aft,
                                                 !.tried = a.tried]
              ELSE LET d == GetNumberOfStreamedDerivatives(
                              cmp, arg, nat, a.aft,
                              GetFirstActionInChain(a.bef, this), 0, 0, ads)
                   IN  [cmp |-> cmp, bef |-> a.bef, aft |-> a.aft, ads |-> d.ads,
                        dic |-> dic1, nder |-> d.nder, res |-> "chained",
                        tried |-> a.tried]
  ELSE [keep("stored") EXCEPT !.cmp = BuildDataStores(cmp, as, argstart),
                              !.nder = SumOfValues(cmp, as, 1)]

\* ------------------------------------------------ ActionWithVector (layout)

\* void getNumberOfTasks( unsigned& ntasks ) from node n on.  res is "ok",
\* "assert" (plumed_assert of line 256), "mismatch" (the error() of lines
\* 262-264) or "noarg" (a rank 0 component of a node without arguments:
\* getPntrToArgument(0) of line 262 has nothing to return).
RECURSIVE GetNumberOfTasks(_, _, _, _, _)
GetNumberOfTasks(cmp, arg, aft, n, nt0) ==
  LET c == cmp[n]
      unset == nt0 = 0
      nt1 == IF ~unset THEN nt0
             ELSE IF c[1].hasDeriv THEN c[1].nvals ELSE c[1].shape0
      noarg(i) == c[i].rank = 0 /\ Len(arg[n]) = 0
      bad(i) ==
        IF c[i].rank = 0
        THEN Len(arg[n]) > 1 \/ nt1 # ValueOf(cmp, arg[n][1]).nvals
        ELSE IF c[i].hasDeriv /\ nt1 # c[i].nvals THEN TRUE
        ELSE nt1 # c[i].shape0
      firstbad == IF \E i \in 1..Len(c) : noarg(i) \/ bad(i)
                  THEN CHOOSE i \in 1..Len(c) :
                         /\ noarg(i) \/ bad(i)
                         /\ \A j \in 1..(i - 1) : ~(noarg(j) \/ bad(j))
                  ELSE 0
  IN  IF unset /\ (Len(c) = 0 \/ c[1].rank = 0)
      THEN [ntasks |-> nt0, res |-> "assert"]
      ELSE IF firstbad # 0
      THEN [ntasks |-> nt1, res |-> IF noarg(firstbad) THEN "noarg" ELSE "mismatch"]
      ELSE IF aft[n] # NULL THEN GetNumberOfTasks(cmp, arg, aft, aft[n], nt1)
      ELSE [ntasks |-> nt1, res |-> "ok"]

\* data.size() of a Value whose owner has nder derivatives: 1 + nder for a
\* scalar with derivatives, 1 for one without, the number of values for a
\* stored vector, nothing for a streamed one.
DataSize(v, nder) ==
  IF v.rank = 0 THEN (IF v.hasDeriv THEN 1 + nder ELSE 1)
  ELSE IF v.stored THEN v.nvals ELSE 0

\* Mutant: bufsize is not advanced past the components of a node that has
\* a successor.
RECURSIVE GetSizeOfBuffer_NoAdvance(_, _, _, _, _)
GetSizeOfBuffer_NoAdvance(cmp, nder, aft, n, bsz) ==
  LET c == [cmp EXCEPT ![n] = [i \in 1..Len(cmp[n]) |->
                                 [cmp[n][i] EXCEPT !.bufstart = bsz]]]
  IN  IF aft[n] # NULL THEN GetSizeOfBuffer_NoAdvance(c, nder, aft, aft[n], bsz)
      ELSE [cmp |-> c, bufsize |-> bsz]

\* void getSizeOfBuffer( nactive_tasks, unsigned& bufsize ) from node n on:
\* the bufstart of every component it passes and the final bufsize.
RECURSIVE GetSizeOfBuffer(_, _, _, _, _)
GetSizeOfBuffer(cmp, nder, aft, n, bsz) ==
  LET RECURSIVE upto(_)
      upto(i) == IF i = 0 THEN bsz
                 ELSE upto(i - 1) + DataSize(cmp[n][i], nder[n])
      c == [cmp EXCEPT ![n] = [i \in 1..Len(cmp[n]) |->
                                 [cmp[n][i] EXCEPT !.bufstart = upto(i - 1)]]]
  IN  IF aft[n] # NULL
      THEN GetSizeOfBuffer(c, nder, aft, aft[n], upto(Len(cmp[n])))
      ELSE [cmp |-> c, bufsize |-> upto(Len(cmp[n]))]

\* Mutant: the counter is not advanced past a component.
NextQuantity_Stuck(nquants) == nquants

\* Lines 270 and 271: streampos=nquants; nquants++;
NextQuantity(nquants) == nquants + 1

\* void getNumberOfStreamedQuantities( nquants, ncols, nmat ) from node n on:
\* the streampos of every Value it passes (an argument is a Value of the node
\* that owns it) and the final nquants.
RECURSIVE GetNumberOfStreamedQuantities(_, _, _, _, _, _)
GetNumberOfStreamedQuantities(cmp, arg, aft, n, nquants, sp) ==
  LET RECURSIVE overArgs(_, _)
      overArgs(i, r) ==
        IF i > Len(arg[n]) THEN r
        ELSE overArgs(i + 1, [streampos |-> [r.streampos EXCEPT ![arg[n][i]] = r.nquants],
                              nquants |-> NextQuantity(r.nquants)])
      RECURSIVE overComps(_, _)
      overComps(i, r) ==
        IF i > Len(cmp[n]) THEN r
        ELSE overComps(i + 1, [streampos |-> [r.streampos EXCEPT ![<<n, i>>] = r.nquants],
                               nquants |-> NextQuantity(r.nquants)])
      r2 == overComps(1, overArgs(1, [streampos |-> sp, nquants |-> nquants]))
  IN  IF aft[n] # NULL
      THEN GetNumberOfStreamedQuantities(cmp, arg, aft, aft[n], r2.nquants, r2.streampos)
      ELSE r2

\* ---------------------------------------------- ActionWithVector (executor)

\* unsigned is 32 bits wide: a value is kept as <<high, low>> halves of 16
\* bits so that a product can wrap as it does in the program.
Half == 65536

ToU32(a) == <<(a \div Half) % Half, a % Half>>

\* x*b modulo 2^32, for a factor b below 2^15.
MulU32(x, b) ==
  LET lo == x[2] * b
      hi == x[1] * b + (lo \div Half)
  IN  <<hi % Half, lo % Half>>

GtU32(x, y) == x[1] > y[1] \/ (x[1] = y[1] /\ x[2] > y[2])

\* Lines 186-188 and 371-373: the number of threads of the region.
NumThreads(D, stride, nactive) ==
  LET nt1 == IF GtU32(MulU32(MulU32(ToU32(D), stride), ThreadGrain), ToU32(nactive))
             THEN (nactive \div stride) \div ThreadGrain
             ELSE D
  IN  IF nt1 = 0 THEN 1 ELSE nt1

\* Lines 172-174: if(serial) { stride=1; rank=0; }
Stride == IF serial THEN 1 ELSE nprocs
MyRank == IF serial THEN 0 ELSE rank

\* Mutant: every process starts its loop at task 0.
LoopIndex_FromZero(myrank, stride, k) == k * stride

\* for(unsigned i=rank; i<nactive_tasks; i+=stride): the index of
\* iteration k, and the number of iterations.
LoopIndex(myrank, stride, k) == myrank + k * stride

LoopCount(myrank, stride, n) ==
  IF n > myrank THEN (n - myrank + stride - 1) \div stride ELSE 0

\* #pragma omp for nowait: the iterations are handed out statically, in
\* blocks ("block") or round robin ("cyclic"); each thread runs its own in
\* increasing order.  The number of iterations of thread t and its j-th one.
IterCount(sc, niter, nthr, t) ==
  IF sc = "block"
  THEN (niter \div nthr) + (IF t < niter % nthr THEN 1 ELSE 0)
  ELSE IF niter > t THEN (niter - t + nthr - 1) \div nthr ELSE 0

IterIndex(sc, niter, nthr, t, j) ==
  IF sc = "block"
  THEN t * (niter \div nthr) + (IF t < niter % nthr THEN t ELSE niter % nthr) + j
  ELSE t + j * nthr

Zeros(n) == [i \in 1..n |-> 0]

\* What runTask( task, myvals ) leaves in myvals for component c of node n
\* (myvals.get( streampos )): the kernels are fixed, a sum and a sum of
\* squares over a vector whose element i is i+1.
TaskValue(n, c, task) ==
  IF n = 2 THEN task + 1 ELSE (task + 1) * (task + 1)

\* gatherAccumulators( taskCode, myvals, buffer ) from node n on.  No
\* derivative is active (myvals.getNumberActive is 0) in a chain that has
\* no derivatives.
RECURSIVE GatherAccumulators(_, _, _, _, _)
GatherAccumulators(cmp, aft, n, taskCode, buf) ==
  LET RECURSIVE comp(_, _)
      comp(i, b) ==
        IF i > Len(cmp[n]) THEN b
        ELSE LET c == cmp[n][i]
             IN  IF c.rank = 0
                 THEN comp(i + 1, [b EXCEPT ![c.bufstart + 1] = @ + TaskValue(n, i, taskCode)])
                 ELSE IF c.stored
                 THEN comp(i + 1, [b EXCEPT ![c.bufstart + taskCode + 1] =
                                               @ + TaskValue(n, i, taskCode)])
                 ELSE comp(i + 1, b)
      b1 == comp(1, buf)
  IN  IF aft[n] # NULL THEN GatherAccumulators(cmp, aft, aft[n], taskCode, b1) ELSE b1

\* Lines 198-200: buffer.resize( bufsize ) when the size differs, then
\* buffer.assign( buffer.size(), 0.0 ).
ClearBuffer(buf, size) == [i \in 1..size |-> 0]

\* Mutant: the merge overwrites the shared buffer.
MergeThread_Overwrite(shared, private) == private

\* Lines 232 and 411: for(i) buffer[i]+=omp_buffer[i];
MergeThread(shared, private) == [i \in 1..Len(shared) |-> shared[i] + private[i]]

\* Mutant: the merge is not in a critical section.
CriticalFree_NoPragma(tp) == TRUE

\* #pragma omp critical (lines 231 and 410): no thread is inside.
CriticalFree(tp) == \A u \in DOMAIN tp : tp[u] # "critical"

\* comm.Sum( buffer ): every process ends with the element-wise sum of the
\* buffers of all of them.
CommSum(bufs) ==
  LET RECURSIVE total(_, _)
      total(p, i) == IF p < 0 THEN 0 ELSE bufs[p][i] + total(p - 1, i)
  IN  [p \in DOMAIN bufs |-> [i \in 1..Len(bufs[p]) |-> total(nprocs - 1, i)]]

\* ------------------------------------------------------ MultiValue (scratch)

\* MultiValue myvals( nquantities, nderivatives, ... ) after clearAll: the
\* value of every stream position, its derivatives and its list of active
\* derivative indices.  fault records an access outside the allocation.
NewMultiValue(nq, nd) ==
  [val |-> [q \in 0..(nq - 1) |-> 0],
   der |-> [q \in 0..(nq - 1) |-> [k \in 0..(nd - 1) |-> 0]],
   act |-> [q \in 0..(nq - 1) |-> {}],
   fault |-> "none"]

\* Mutant: the scratch is left as the task filled it.
ClearAll_Keep(mv) == mv

\* myvals.clearAll(): every value, derivative and active index is dropped,
\* the allocation is kept.
ClearAll(mv) ==
  [mv EXCEPT !.val = [q \in DOMAIN mv.val |-> 0],
             !.der = [q \in DOMAIN mv.der |-> [k \in DOMAIN mv.der[q] |-> 0]],
             !.act = [q \in DOMAIN mv.act |-> {}]]

\* The scratch holds nothing of a task.
Cleared(mv) ==
  \A q \in DOMAIN mv.val :
     /\ mv.val[q] = 0
     /\ mv.act[q] = {}
     /\ \A k \in DOMAIN mv.der[q] : mv.der[q][k] = 0

InScratch(mv, q, k) == q \in DOMAIN mv.der /\ k \in DOMAIN mv.der[q]

AddValue(mv, q, x) ==
  IF q \in DOMAIN mv.val THEN [mv EXCEPT !.val[q] = @ + x]
  ELSE [mv EXCEPT !.fault = "range"]

AddDerivative(mv, q, k, x) ==
  IF InScratch(mv, q, k) THEN [mv EXCEPT !.der[q][k] = @ + x]
  ELSE [mv EXCEPT !.fault = "range"]

UpdateIndex(mv, q, k) ==
  IF InScratch(mv, q, k) THEN [mv EXCEPT !.act[q] = @ \cup {k}]
  ELSE [mv EXCEPT !.fault = "range"]

\* Folds op over the elements of the finite set S, smallest first.
RECURSIVE FoldSet(_, _, _)
FoldSet(Op(_, _), S, acc) ==
  IF S = {} THEN acc
  ELSE LET x == CHOOSE y \in S : \A z \in S : y <= z
       IN  FoldSet(Op, S \ {x}, Op(acc, x))

\* ------------------------------------------- FunctionOfVector (performTask)

\* myfunc.calc( this, args, vals, derivatives ) of node n: a node whose
\* components are vectors squares its arguments and adds the squares, a node
\* whose components are scalars adds its arguments.
RECURSIVE SumSeq(_)
SumSeq(s) == IF Len(s) = 0 THEN 0 ELSE Head(s) + SumSeq(Tail(s))

Calc(cmp, n, a) ==
  IF cmp[n][1].rank > 0
  THEN [vals |-> SumSeq([j \in 1..Len(a) |-> a[j] * a[j]]),
        derivatives |-> [j \in 1..Len(a) |-> 2 * a[j]]]
  ELSE [vals |-> SumSeq(a), derivatives |-> [j \in 1..Len(a) |-> 1]]

\* Value::get( i ) of a Value whose data is d.
GetData(d, i) == IF i + 1 \in DOMAIN d THEN d[i + 1] ELSE 0

\* Lines 161-175: the arguments of the function for task current.
FunctionArgs(cmp, arg, bef, sp, dat, vset, n, current, mv) ==
  [j \in 1..Len(arg[n]) |->
     LET v == arg[n][j]
     IN  IF bef[n] # NULL
         THEN IF ValueOf(cmp, v).rank = 0 THEN GetData(dat[v], 0)
              ELSE IF ~vset[v] THEN mv.val[sp[v]]
              ELSE GetData(dat[v], current)
         ELSE IF ValueOf(cmp, v).rank = 1 THEN GetData(dat[v], current)
              ELSE GetData(dat[v], 0)]

\* Mutant: the derivative of the argument is left out of the product.
ChainRule_Outer(outer, inner) == outer

\* Line 197: derivatives(i,j)*myvals.getDerivative( istrn, kind )
ChainRule(outer, inner) == outer * inner

\* Lines 188-211: the derivatives of a node that is in a chain.
ChainDerivatives(cmp, arg, sp, ads, n, d, mv0) ==
  LET RECURSIVE overArgs(_, _)
      overArgs(j, mv) ==
        IF j > Len(arg[n]) \/ mv.fault # "none" THEN mv
        ELSE
          LET v == arg[n][j]
              istrn == sp[v]
              arg_deriv_start == ads[v[1]][v[2]]
              kinds == mv.act[istrn]
              addAll(m, kind) ==
                LET RECURSIVE overComps(_, _)
                    overComps(i, mm) ==
                      IF i > Len(cmp[n]) THEN mm
                      ELSE overComps(i + 1,
                             AddDerivative(mm, sp[<<n, i>>], arg_deriv_start + kind,
                                           ChainRule(d[j], mv.der[istrn][kind])))
                IN  overComps(1, m)
              updAll(m, kind) ==
                LET RECURSIVE overComps(_, _)
                    overComps(i, mm) ==
                      IF i > Len(cmp[n]) THEN mm
                      ELSE overComps(i + 1,
                             UpdateIndex(mm, sp[<<n, i>>], arg_deriv_start + kind))
                IN  overComps(1, m)
              found == \E k \in 1..(j - 1) :
                          ads[arg[n][k][1]][arg[n][k][2]] = arg_deriv_start
          IN  IF ValueOf(cmp, v).stored THEN [mv EXCEPT !.fault = "merror"]
              ELSE LET m1 == FoldSet(addAll, kinds, mv)
                   IN  overArgs(j + 1, IF found THEN m1 ELSE FoldSet(updAll, kinds, m1))
  IN  overArgs(1, mv0)

\* Lines 212-231: the derivatives of a node that is not in a chain.
AloneDerivatives(cmp, arg, sp, n, current, d, mv0) ==
  LET RECURSIVE overArgs(_, _, _)
      overArgs(j, base, mv) ==
        IF j > Len(arg[n]) THEN mv
        ELSE
          LET v == ValueOf(cmp, arg[n][j])
              k == IF v.rank = 1 THEN base + current ELSE base
              RECURSIVE overComps(_, _)
              overComps(i, mm) ==
                IF i > Len(cmp[n]) THEN mm
                ELSE overComps(i + 1,
                       UpdateIndex(AddDerivative(mm, sp[<<n, i>>], k, d[j]),
                                   sp[<<n, i>>], k))
          IN  overArgs(j + 1, base + v.nvals, overComps(1, mv))
  IN  overArgs(1, 0, mv0)

\* Lines 176-179: the values of the components.
SetValues(cmp, sp, n, x, mv0) ==
  LET RECURSIVE overComps(_, _)
      overComps(i, mv) ==
        IF i > Len(cmp[n]) THEN mv
        ELSE overComps(i + 1, AddValue(mv, sp[<<n, i>>], x))
  IN  overComps(1, mv0)

\* performTask of a node without arguments (an atom-position source): element
\* current of each component is the coordinate current + 1, whose derivative
\* with respect to coordinate current is 1.
LeafPerformTask(cmp, nat, sp, n, current, mv0) ==
  LET mv1 == SetValues(cmp, sp, n, current + 1, mv0)
      RECURSIVE overComps(_, _)
      overComps(i, mm) ==
        IF i > Len(cmp[n]) THEN mm
        ELSE overComps(i + 1,
               UpdateIndex(AddDerivative(mm, sp[<<n, i>>], current, 1),
                           sp[<<n, i>>], current))
  IN  IF nat[n] > 0 THEN overComps(1, mv1) ELSE mv1

\* Mutant: a node in a chain takes the derivative indices of a node that is
\* not in one.
PerformTask_AloneIndices(cmp, arg, nat, bef, sp, ads, dat, vset, n, current, mv) ==
  IF Len(arg[n]) = 0 THEN LeafPerformTask(cmp, nat, sp, n, current, mv)
  ELSE LET a == FunctionArgs(cmp, arg, bef, sp, dat, vset, n, current, mv)
           c == Calc(cmp, n, a)
           mv1 == SetValues(cmp, sp, n, c.vals, mv)
       IN  AloneDerivatives(cmp, arg, sp, n, current, c.derivatives, mv1)

\* void performTask( current, myvals ) of node n (lines 160-232).
PerformTask(cmp, arg, nat, bef, sp, ads, dat, vset, n, current, mv) ==
  IF Len(arg[n]) = 0 THEN LeafPerformTask(cmp, nat, sp, n, current, mv)
  ELSE LET a == FunctionArgs(cmp, arg, bef, sp, dat, vset, n, current, mv)
           c == Calc(cmp, n, a)
           mv1 == SetValues(cmp, sp, n, c.vals, mv)
       IN  IF bef[n] # NULL
           THEN ChainDerivatives(cmp, arg, sp, ads, n, c.derivatives, mv1)
           ELSE AloneDerivatives(cmp, arg, sp, n, current, c.derivatives, mv1)

\* ----------------------------------------- ActionWithVector (one task, one thread)

\* Line 317: unsigned vindex = bufstart + taskCode.
VectorIndex(bufstart, taskCode) == bufstart + taskCode

\* The writes gatherAccumulators( taskCode, myvals, buffer ) makes from node
\* n on, in the order it makes them (lines 300-324): the component written
\* for, the index of buffer and the amount added.
RECURSIVE GatherWrites(_, _, _, _, _, _, _)
GatherWrites(cmp, aft, sp, actv, n, taskCode, mv) ==
  LET RECURSIVE comp(_)
      comp(i) ==
        IF i > Len(cmp[n]) THEN <<>>
        ELSE LET c == cmp[n][i]
                 sind == sp[<<n, i>>]
                 one(k) == [v |-> <<n, i>>, index |-> c.bufstart + 1 + k,
                            add |-> mv.der[sind][k]]
                 ders(acc, k) == Append(acc, one(k))
             IN  IF c.rank = 0
                 THEN << [v |-> <<n, i>>, index |-> c.bufstart, add |-> mv.val[sind]] >>
                      \o (IF c.hasDeriv THEN FoldSet(ders, mv.act[sind], <<>>) ELSE <<>>)
                      \o comp(i + 1)
                 ELSE IF c.stored
                 THEN << [v |-> <<n, i>>, index |-> VectorIndex(c.bufstart, taskCode),
                          add |-> mv.val[sind]] >> \o comp(i + 1)
                 ELSE comp(i + 1)
      mine == IF actv[n] THEN comp(1) ELSE <<>>
  IN  IF aft[n] # NULL
      THEN mine \o GatherWrites(cmp, aft, sp, actv, aft[n], taskCode, mv)
      ELSE mine

\* buffer[index] += add for each write in turn.  A write outside the buffer is
\* undefined behaviour (the plumed_dbg_massert of lines 305, 311 and 317 are
\* compiled out of a release build): the buffer is left as it is here and the
\* write is reported by OutsideBuffer.
RECURSIVE ApplyWrites(_, _)
ApplyWrites(buf, w) ==
  IF Len(w) = 0 THEN buf
  ELSE ApplyWrites(IF Head(w).index + 1 \in DOMAIN buf
                   THEN [buf EXCEPT ![Head(w).index + 1] = @ + Head(w).add]
                   ELSE buf, Tail(w))

\* The elements of buf that finishComputations( buf ) reads from node n on
\* (lines 326-348): the component read for and the index of buf.
RECURSIVE FinishReads(_, _, _, _, _)
FinishReads(cmp, nder, aft, actv, n) ==
  LET reads(i) ==
        LET c == cmp[n][i]
            sz == DataSize(c, nder[n])
        IN  (IF (c.rank > 0 /\ c.hasDeriv) \/ c.stored
             THEN { [v |-> <<n, i>>, index |-> c.bufstart + j] : j \in 0..(sz - 1) }
             ELSE IF c.rank = 0 THEN { [v |-> <<n, i>>, index |-> c.bufstart] }
             ELSE {})
            \cup
            (IF c.hasDeriv /\ c.rank = 0
             THEN { [v |-> <<n, i>>, index |-> c.bufstart + 1 + j] : j \in 0..(sz - 2) }
             ELSE {})
      mine == IF actv[n] THEN UNION { reads(i) : i \in 1..Len(cmp[n]) } ELSE {}
  IN  IF aft[n] # NULL THEN mine \cup FinishReads(cmp, nder, aft, actv, aft[n])
      ELSE mine

\* What finishComputations( buf ) leaves in the data of the components from
\* node n on: the value or values first, the derivatives of a scalar after
\* them.
RECURSIVE FinishComputations(_, _, _, _, _, _, _)
FinishComputations(cmp, nder, aft, actv, n, buf, dat) ==
  LET at(k) == IF k + 1 \in DOMAIN buf THEN buf[k + 1] ELSE 0
      newdata(i) ==
        LET c == cmp[n][i]
        IN  [j \in 1..DataSize(c, nder[n]) |-> at(c.bufstart + j - 1)]
      d1 == [v \in DOMAIN dat |->
               IF actv[n] /\ v[1] = n /\ v[2] <= Len(cmp[n]) THEN newdata(v[2])
               ELSE dat[v]]
  IN  IF aft[n] # NULL THEN FinishComputations(cmp, nder, aft, actv, aft[n], buf, d1)
      ELSE d1

\* void runTask( current, myvals ) from node n on (lines 293-298): what is
\* left in myvals, and the nodes whose performTask was called, in the order
\* of the calls.
RECURSIVE RunTaskChain(_, _, _, _, _, _, _, _, _, _, _, _, _)
RunTaskChain(cmp, arg, nat, bef, aft, sp, ads, dat, vset, actv, n, current, mv) ==
  LET mv1 == IF actv[n] /\ mv.fault = "none"
             THEN PerformTask(cmp, arg, nat, bef, sp, ads, dat, vset, n, current, mv)
             ELSE mv
      me  == IF actv[n] THEN << <<"performTask", n>> >> ELSE <<>>
  IN  IF aft[n] # NULL
      THEN LET r == RunTaskChain(cmp, arg, nat, bef, aft, sp, ads, dat, vset, actv,
                                 aft[n], current, mv1)
           IN  [mv |-> r.mv, calls |-> me \o r.calls]
      ELSE [mv |-> mv1, calls |-> me]

\* The nodes gatherAccumulators does its work on from node n on, in order.
RECURSIVE GatherCalls(_, _, _)
GatherCalls(aft, actv, n) ==
  (IF actv[n] THEN << <<"gatherAccumulators", n>> >> ELSE <<>>)
  \o (IF aft[n] # NULL THEN GatherCalls(aft, actv, aft[n]) ELSE <<>>)

\* Mutant: every node is copied before any node is transformed.
FinishCalls_CopyFirst(aft, actv, n) ==
  LET l == GetAllActionLabelsInChain(aft, n, <<>>)
      on == SelectSeq(l, LAMBDA k : actv[k])
  IN  [i \in 1..Len(on) |-> <<"finishComputations", on[i]>>]
      \o [i \in 1..Len(on) |-> <<"transformFinalValueAndDerivatives", on[i]>>]

\* The calls finishComputations( buf ) makes from node n on (lines 326-348):
\* an active node copies its components out of buf, then calls its
\* transformFinalValueAndDerivatives; then the next node is entered.
RECURSIVE FinishCalls(_, _, _)
FinishCalls(aft, actv, n) ==
  (IF actv[n]
   THEN << <<"finishComputations", n>>, <<"transformFinalValueAndDerivatives", n>> >>
   ELSE <<>>)
  \o (IF aft[n] # NULL THEN FinishCalls(aft, actv, aft[n]) ELSE <<>>)

\* -------------------------------------------- ActionWithVector (force pass)

\* The force a consumer adds to a Value.
ForceValue == 2

\* Mutant: the chain is taken to carry a force whatever its Values say.
CheckChainForNonScalarForces_Always(cmp, aft, hf, n) == TRUE

\* Mutant: no node is taken to be in the chain of another.
ActionInChain_Never(bef, n) == FALSE

\* bool actionInChain() of node n (ActionWithVector.h:109-111).
ActionInChain(bef, n) == bef[n] # NULL

\* bool checkChainForNonScalarForces() from node n on (lines 350-356).
RECURSIVE CheckChainForNonScalarForces(_, _, _, _)
CheckChainForNonScalarForces(cmp, aft, hf, n) ==
  IF \E i \in 1..Len(cmp[n]) : cmp[n][i].rank > 0 /\ hf[<<n, i>>] THEN TRUE
  ELSE IF aft[n] # NULL THEN CheckChainForNonScalarForces(cmp, aft, hf, aft[n])
  ELSE FALSE

\* bool ActionWithValue::checkForForces() of a node n whose components are
\* scalars: false when none of them has a force, otherwise forcesForApply is
\* given one element per derivative, the sum over the components of the
\* force times the derivative.
ScalarForces(cmp, nder, dat, hf, n) ==
  LET forced == { i \in 1..Len(cmp[n]) : hf[<<n, i>>] }
      RECURSIVE sum(_, _)
      sum(i, j) == IF i > Len(cmp[n]) THEN 0
                   ELSE (IF i \in forced THEN ForceValue * GetData(dat[<<n, i>>], j)
                         ELSE 0) + sum(i + 1, j)
  IN  [any |-> forced # {} /\ nder[n] > 0,
       forces |-> [j \in 1..nder[n] |-> sum(1, j)]]

\* What gatherForces( i, myvals, forces ) of node n adds to the nder elements
\* of forces.  The body of ActionWithVector::gatherForces is empty (lines
\* 418-420) and FunctionOfVector does not override it; a node without
\* arguments is of a class that does, and projects the force on each of its
\* components onto the derivatives active for the task.
GatherForces(cmp, arg, sp, hf, n, i, mv, nder) ==
  LET RECURSIVE sum(_, _)
      sum(c, k) ==
        IF c > Len(cmp[n]) THEN 0
        ELSE (IF hf[<<n, c>>] /\ k \in mv.act[sp[<<n, c>>]]
              THEN ForceValue * mv.der[sp[<<n, c>>]][k] ELSE 0) + sum(c + 1, k)
  IN  IF Len(arg[n]) > 0 THEN Zeros(nder)
      ELSE [k \in 1..nder |-> sum(1, k - 1)]

\* forces[ind], ..., forces[ind + len - 1]
Slice(forces, ind, len) ==
  [j \in 1..len |-> IF ind + j \in DOMAIN forces THEN forces[ind + j] ELSE 0]

\* addForcesOnArguments and setForcesOnAtoms leave ind after what they took.
NextForce(ind, len) == ind + len

\* void addForcesToInput( forcesToApply, ind ) from node n on (lines
\* 428-431): addForcesOnArguments gives each stored argument as many
\* elements as it has values, setForcesOnAtoms gives the atoms of the node
\* 3*getNumberOfAtoms()+9 elements.
RECURSIVE AddForcesToInput(_, _, _, _, _, _, _, _, _)
AddForcesToInput(cmp, arg, nat, aft, n, forces, ind, atf, agf) ==
  LET RECURSIVE overArgs(_, _, _)
      overArgs(i, k, f) ==
        IF i > Len(arg[n]) THEN [ind |-> k, agf |-> f]
        ELSE LET v == ValueOf(cmp, arg[n][i])
             IN  IF v.stored
                 THEN overArgs(i + 1, NextForce(k, v.nvals),
                               [f EXCEPT ![arg[n][i]] = Slice(forces, k, v.nvals)])
                 ELSE overArgs(i + 1, k, f)
      a   == overArgs(1, ind, agf)
      na  == AtomDerivatives(nat[n])
      at1 == IF na > 0 THEN [atf EXCEPT ![n] = Slice(forces, a.ind, na)] ELSE atf
      k1  == NextForce(a.ind, na)
  IN  IF aft[n] # NULL
      THEN AddForcesToInput(cmp, arg, nat, aft, aft[n], forces, k1, at1, a.agf)
      ELSE [atomForces |-> at1, argForces |-> a.agf, ind |-> k1]

\* ------------------------------------- VStack, FunctionOfMatrix (end of a row)

\* What one call of runEndOfRowJobs did: calls are the calls of
\* setNumberOfMatrixRowDerivatives in order, writes the positions of the
\* row-derivative index arrays that were assigned, size the size each array
\* had when it was written.
RowResult(calls, writes, size, fault) ==
  [calls |-> calls, writes |-> writes, size |-> size, fault |-> fault]

\* VStack.cpp lines 104-109: an earlier argument belongs to the same action.
SameActionEarlier(as, i) == \E j \in 1..(i - 1) : as[j].action = as[i].action

\* part_001 lines 280-284: an earlier argument has the same arg_deriv_starts.
SameStartEarlier(as, i) == \E j \in 1..(i - 1) : as[j].ads = as[i].ads

\* The loop of VStack.cpp lines 104-115 from argument i on: nmat_ind after
\* it, when nactive[i] indices are active in the stream of argument i.
RECURSIVE VStackIndices(_, _, _, _)
VStackIndices(as, nactive, i, nmat_ind) ==
  IF i > Len(as) THEN nmat_ind
  ELSE IF SameActionEarlier(as, i) THEN VStackIndices(as, nactive, i + 1, nmat_ind)
  ELSE VStackIndices(as, nactive, i + 1, nmat_ind + nactive[i])

\* void VStack::runEndOfRowJobs( ival, indices, myvals ): m is the node,
\* nactive[i] the number of active indices of the stream of argument i in the
\* row, nmat_ind0 the number of row derivatives the array holds on entry.
VStackRunEndOfRowJobs(m, nactive, nmat_ind0) ==
  IF m.noderiv \/ ~m.continues THEN RowResult(<<>>, {}, m.size, "none")
  ELSE IF ~(nmat_ind0 < m.size[1]) THEN RowResult(<<>>, {}, m.size, "assert")
  ELSE LET nmat_ind == VStackIndices(m.args, nactive, 1, nmat_ind0)
       IN  RowResult(<<[comp |-> 1, n |-> nmat_ind]>>,
                     {[comp |-> 1, pos |-> p] : p \in nmat_ind0..(nmat_ind - 1)},
                     m.size, "none")

\* The loop of part_001 lines 277-289 from argument i on: ntot_mat after it,
\* when the array of argument i holds count[i] row derivatives.
RECURSIVE ChainIndices(_, _, _, _)
ChainIndices(as, count, i, ntot_mat) ==
  IF i > Len(as) THEN ntot_mat
  ELSE IF as[i].rank = 0 \/ SameStartEarlier(as, i)
       THEN ChainIndices(as, count, i + 1, ntot_mat)
  ELSE ChainIndices(as, count, i + 1, ntot_mat + count[i])

\* The loop of part_001 lines 314-319 from argument i on.
RECURSIVE AloneIndices(_, _, _)
AloneIndices(as, i, ntot_mat) ==
  IF i > Len(as) THEN ntot_mat
  ELSE IF as[i].rank = 0 THEN AloneIndices(as, i + 1, ntot_mat)
  ELSE AloneIndices(as, i + 1, ntot_mat + as[i].cols)

\* Lines 276 and 313: if( mat_indices.size()<nderivatives ) resize.
Resize(size, nder) == IF size < nder THEN nder ELSE size

\* void FunctionOfMatrix<T>::runEndOfRowJobs( ind, indices, myvals ).
FunctionOfMatrixRunEndOfRowJobs(m, count) ==
  LET size1 == [vv \in 1..m.ncomps |-> Resize(m.size[vv], m.nderivatives)]
      ntot  == IF m.inchain THEN ChainIndices(m.args, count, m.argstart + 1, 0)
               ELSE AloneIndices(m.args, m.argstart + 1, 0)
  IN  IF m.rank = 2
      THEN RowResult([vv \in 1..m.ncomps |-> [comp |-> vv, n |-> ntot]],
                     {[comp |-> vv, pos |-> p] : vv \in 1..m.ncomps, p \in 0..(ntot - 1)},
                     size1, "none")
      ELSE RowResult(<<>>, {}, m.size, "none")

\* ------------------------------------------- ParabetaRMSD (segment generation)

\* x - b in unsigned 32-bit arithmetic, b below Half.
SubU32(x, b) ==
  IF x[2] >= b THEN <<x[1], x[2] - b>>
  ELSE <<(x[1] + Half - 1) % Half, x[2] + Half - b>>

\* The most iterations of one loop that are followed; a loop whose condition
\* still holds after them is cut there (fault "cut").
MaxIter == 8

\* The number of atoms of the chains before chain i (chains counted from 0).
RECURSIVE AtomsBefore(_, _)
AtomsBefore(chains, i) == IF i = 0 THEN 0 ELSE AtomsBefore(chains, i - 1) + chains[i]

\* Lines 142-150 and 170-178: nlist of the two strands that start at atoms
\* base1 and base2, and " SEGMENT" + num appended to seglist.
AddSegment(st, base1, base2) ==
  [st EXCEPT !.segs = Append(@, [num |-> st.jjkk,
                                 nlist |-> [k \in 1..30 |-> IF k <= 15 THEN base1 + (k - 1)
                                                            ELSE base2 + (k - 16)]]),
             !.jjkk = @ + 1]

\* Line 141: unsigned jres=ires+6.
FirstPartner(ires) == ires + 6

\* Line 141: for(unsigned jres=ires+6; jres<nres-2; jres++), n iterations done.
RECURSIVE IntraJres(_, _, _, _, _, _)
IntraJres(st, nprevious, nres, ires, jres, n) ==
  IF ~GtU32(SubU32(ToU32(nres), 2), ToU32(jres)) THEN st
  ELSE IF n >= MaxIter THEN [st EXCEPT !.fault = "cut"]
  ELSE IntraJres(AddSegment(st, nprevious + ires * 5, nprevious + jres * 5),
                 nprevious, nres, ires, jres + 1, n + 1)

\* Line 140: for(unsigned ires=0; ires<nres-8; ires++).
RECURSIVE IntraIres(_, _, _, _)
IntraIres(st, nprevious, nres, ires) ==
  IF st.fault # "none" THEN st
  ELSE IF ~GtU32(SubU32(ToU32(nres), 8), ToU32(ires)) THEN st
  ELSE IF ires >= MaxIter THEN [st EXCEPT !.fault = "cut"]
  ELSE IntraIres(IntraJres(st, nprevious, nres, ires, FirstPartner(ires), 0),
                 nprevious, nres, ires + 1)

\* Lines 135-154: for(unsigned i=0; i<chains.size(); ++i).
RECURSIVE IntraChains(_, _, _, _)
IntraChains(st, chains, i, nprevious) ==
  IF st.fault # "none" \/ i >= Len(chains) THEN st
  ELSE IF chains[i + 1] < 40 THEN [st EXCEPT !.fault = "error"]
  ELSE IF chains[i + 1] % 5 # 0 THEN [st EXCEPT !.fault = "error"]
  ELSE IntraChains(IntraIres(st, nprevious, chains[i + 1] \div 5, 0),
                   chains, i + 1, nprevious + chains[i + 1])

\* Line 169: for(unsigned jres=0; jres<jnres-2; ++jres).
RECURSIVE InterJres(_, _, _, _, _, _)
InterJres(st, iprev, jprev, ires, jnres, jres) ==
  IF ~GtU32(SubU32(ToU32(jnres), 2), ToU32(jres)) THEN st
  ELSE IF jres >= MaxIter THEN [st EXCEPT !.fault = "cut"]
  ELSE InterJres(AddSegment(st, iprev + ires * 5, jprev + jres * 5),
                 iprev, jprev, ires, jnres, jres + 1)

\* Line 165: for(unsigned jchain=0; jchain<ichain; ++jchain).
RECURSIVE InterJchain(_, _, _, _, _, _)
InterJchain(st, chains, ichain, iprev, ires, jchain) ==
  IF st.fault # "none" \/ jchain >= ichain THEN st
  ELSE IF chains[jchain + 1] % 5 # 0 THEN [st EXCEPT !.fault = "error"]
  ELSE InterJchain(InterJres(st, iprev, AtomsBefore(chains, jchain), ires,
                             chains[jchain + 1] \div 5, 0),
                   chains, ichain, iprev, ires, jchain + 1)

\* Line 164: for(unsigned ires=0; ires<inres-2; ++ires).
RECURSIVE InterIres(_, _, _, _, _, _)
InterIres(st, chains, ichain, iprev, inres, ires) ==
  IF st.fault # "none" THEN st
  ELSE IF ~GtU32(SubU32(ToU32(inres), 2), ToU32(ires)) THEN st
  ELSE IF ires >= MaxIter THEN [st EXCEPT !.fault = "cut"]
  ELSE InterIres(InterJchain(st, chains, ichain, iprev, ires, 0),
                 chains, ichain, iprev, inres, ires + 1)

\* Lines 160-182: for(unsigned ichain=1; ichain<chains.size(); ++ichain).
RECURSIVE InterChains(_, _, _)
InterChains(st, chains, ichain) ==
  IF st.fault # "none" \/ ichain >= Len(chains) THEN st
  ELSE IF chains[ichain + 1] % 5 # 0 THEN [st EXCEPT !.fault = "error"]
  ELSE InterChains(InterIres(st, chains, ichain, AtomsBefore(chains, ichain),
                             chains[ichain + 1] \div 5, 0),
                   chains, ichain + 1)

\* Lines 120-183 of ParabetaRMSD::ParabetaRMSD: seglist for the chains that
\* readBackboneAtoms returned. fault: "error" (error() was called), "cut".
SegmentList(style, chains) ==
  LET st0 == [segs |-> <<>>, jjkk |-> 1, fault |-> "none"]
      intra_chain == style \in {"all", "intra"}
      inter_chain == style \in {"all", "inter"}
      st1 == IF intra_chain THEN IntraChains(st0, chains, 0, 0) ELSE st0
  IN  IF style \notin {"all", "inter", "intra"} THEN [st0 EXCEPT !.fault = "error"]
      ELSE IF st1.fault # "none" \/ ~inter_chain THEN st1
      ELSE IF Len(chains) = 1 /\ style # "all" THEN [st1 EXCEPT !.fault = "error"]
      ELSE InterChains(st1, chains, 1)

\* ------------------------------------------------------ Print (final output)
\* The stride set when the output is left to the end of the calculation.
FinalStride == 10000

\* What the constructor makes of the keyword STRIDE (Print.cpp:192-196 for a
\* colvar file, 222-235 for xyz and ndx, 307-309 grid, 314-316 cube, 324-326
\* dot; a pdb file leaves the stride as it was read).
PrintStride(tstyle, STRIDE, timeseries, gridinput) ==
  IF STRIDE # 0 \/ tstyle = "pdb"
  THEN [stride |-> STRIDE, printAtEnd |-> FALSE]
  ELSE IF tstyle = "colvar"
  THEN (IF timeseries THEN [stride |-> FinalStride, printAtEnd |-> TRUE]
                      ELSE [stride |-> 1, printAtEnd |-> FALSE])
  ELSE IF tstyle \in {"xyz", "ndx"}
  THEN (IF gridinput THEN [stride |-> FinalStride, printAtEnd |-> TRUE]
                     ELSE [stride |-> 1, printAtEnd |-> FALSE])
  ELSE [stride |-> FinalStride, printAtEnd |-> TRUE]

\* Whether update() gets to the branch that writes the file at step stp
\* (Print.cpp:393-403): not at step 0 when there are arguments and every one
\* of them is made by an AverageBase, and not while printAtEnd is set.
UpdateWrites(p, stp) ==
  IF stp = 0 /\ p.averages THEN FALSE
  ELSE IF p.printAtEnd THEN FALSE
  ELSE TRUE

\* ------------------------------------------------------------------ actions

NoCall == [op |-> "none", act |-> NULL, alabels |-> {}, res |-> "none",
           present |-> FALSE, missing |-> "none", tried |-> 0]

\* No layout call has been made.
LayoutUnset ==
  /\ ntasks = 0
  /\ bufsize = 0

NoStep == [op |-> "none", thread |-> 0, wrote |-> "none"]

AllValues == Nodes \X (1..MaxComps)

NoDerivatives == [nder |-> 0, sder |-> 0, entry |-> [n \in Nodes |-> 0]]

\* No stream has been laid out: a Value is made with streampos 0.
StreamUnset ==
  /\ streampos = [v \in AllValues |-> 0]
  /\ nquantities = 0
  /\ nderiv = NoDerivatives

\* No node has been calculated: every node is active, no Value has data.
TaskIdle ==
  /\ active = [n \in Nodes |-> TRUE]
  /\ calc = 0
  /\ phase = "none"
  /\ itask = 0
  /\ myvals = NewMultiValue(0, 0)
  /\ trace = <<>>
  /\ touched = {}
  /\ data = [v \in AllValues |-> <<>>]
  /\ value_set = [v \in AllValues |-> FALSE]

NoApply == [node |-> NULL, returned |-> FALSE, addForcesToInput |-> FALSE]

\* No force has been added and no apply() has been called.
ForceIdle ==
  /\ nactive_of = [n \in Nodes |-> 0]
  /\ hasForce = [v \in AllValues |-> FALSE]
  /\ applying = 0
  /\ applied = NoApply
  /\ atomForces = [n \in Nodes |-> <<>>]
  /\ argForces = [v \in AllValues |-> <<>>]
  /\ contrib = <<>>

NoMatrix == [kind |-> "none"]

NoRow == [calls |-> <<>>, writes |-> {}, size |-> <<>>, fault |-> "none"]

\* No matrix node has been made.
RowIdle ==
  /\ matrix = NoMatrix
  /\ rowjobs = NoRow

\* No PARABETARMSD action has been made.
SegmentIdle ==
  /\ rmsd = [style |-> "none", chains |-> <<>>, fault |-> "none"]
  /\ segments = <<>>

\* No node has been made.
NoNodes ==
  /\ nnodes = 0
  /\ comps = [n \in Nodes |-> <<>>]
  /\ args = [n \in Nodes |-> <<>>]
  /\ natoms = [n \in Nodes |-> 0]
  /\ cannotFollow = [n \in Nodes |-> {}]
  /\ done_in_chain = [n \in Nodes |-> FALSE]
  /\ action_to_do_before = [n \in Nodes |-> NULL]
  /\ action_to_do_after = [n \in Nodes |-> NULL]
  /\ arg_der_start = [n \in Nodes |-> <<>>]
  /\ nderivatives = [n \in Nodes |-> 0]
  /\ err = "none"
  /\ last = NoCall

\* No pass has been laid out or run.
EngineIdle ==
  /\ StreamUnset
  /\ TaskIdle
  /\ ForceIdle

\* No PRINT action has been made; the calculation is at step 0.
NoPrint ==
  [made |-> FALSE, tstyle |-> "none", timeseries |-> FALSE, gridinput |-> FALSE,
   averages |-> FALSE, STRIDE |-> 0, stride |-> 0, printAtEnd |-> FALSE]

NothingWritten == [update |-> 0, first |-> 0, later |-> 0, finals |-> 0]

PrintIdle ==
  /\ print = NoPrint
  /\ clock = 0
  /\ written = NothingWritten

ExtIdle ==
  /\ EngineIdle
  /\ RowIdle
  /\ SegmentIdle
  /\ sweep = 0
  /\ PrintIdle

\* No pass has been run: P processes, D threads asked for, tasks 0..n-1.
RunIdle(P, D, ser, n) ==
  /\ nprocs = P
  /\ desired = D
  /\ serial = ser
  /\ pc = "idle"
  /\ mode = "none"
  /\ rank = 0
  /\ nt = 1
  /\ head = NULL
  /\ nactive_tasks = 0
  /\ buffer = [p \in 0..(P - 1) |-> <<>>]
  /\ forcesForApply = [p \in 0..(P - 1) |-> <<>>]
  /\ omp_buffer = <<>>
  /\ tpc = <<>>
  /\ iter = <<>>
  /\ sched = "block"
  /\ ranby = [p \in 0..(P - 1) |-> [i \in 0..(n - 1) |-> <<>>]]
  /\ ranforces = [p \in 0..(P - 1) |-> [i \in 0..(n - 1) |-> <<>>]]
  /\ step = NoStep

InitChain ==
  /\ LayoutUnset
  /\ ExtIdle
  /\ RunIdle(1, 1, FALSE, 0)
  /\ NoNodes

\* The Values made so far, and the first Value of every node made so far.
ValuesSoFar == { v \in (1..nnodes) \X (1..MaxComps) : v[2] <= Len(comps[v[1]]) }

FirstValuesSoFar == { v \in ValuesSoFar : v[2] = 1 }

\* The constructor of a node (FunctionOfVector.h:77-147, VStack.cpp:53-81):
\* it makes its components cs, reads its arguments as, sets done_in_chain
\* to dic and calls buildArgumentStore(argstart).  plumed_massert(added)
\* (line 112) and error() throw: a constructor that throws leaves no node
\* behind; the links it changed before throwing stay changed.
Construct(cs, as, nat, cf, dic, argstart) ==
  /\ err = "none"
  /\ nnodes < MaxNodes
  /\ LET this == nnodes + 1
         cmp  == [comps EXCEPT ![this] = cs]
         arg  == [args EXCEPT ![this] = as]
         natm == [natoms EXCEPT ![this] = nat]
         ads  == [arg_der_start EXCEPT ![this] = [i \in 1..Len(cs) |-> 0]]
         r    == BuildArgumentStore(cmp, arg, natm, action_to_do_before,
                                    action_to_do_after, ads, this, argstart, dic)
         ok   == r.res \in {"chained", "stored"}
     IN  /\ action_to_do_before' = r.bef
         /\ action_to_do_after' = r.aft
         /\ err' = IF ok THEN "none" ELSE IF r.res = "notadded" THEN "assert" ELSE "order"
         /\ last' = [NoCall EXCEPT !.op = "build", !.act = this, !.res = r.res,
                                     !.tried = r.tried]
         /\ IF ok
            THEN /\ nnodes' = this
                 /\ comps' = r.cmp
                 /\ args' = arg
                 /\ natoms' = natm
                 /\ cannotFollow' = [cannotFollow EXCEPT ![this] = cf]
                 /\ done_in_chain' = [done_in_chain EXCEPT ![this] = r.dic]
                 /\ arg_der_start' = r.ads
                 /\ nderivatives' = [nderivatives EXCEPT ![this] = r.nder]
            ELSE UNCHANGED <<nnodes, comps, args, natoms, cannotFollow,
                             done_in_chain, arg_der_start, nderivatives>>
  /\ UNCHANGED <<layoutVars, runVars>>
  /\ UNCHANGED extVars

\* Value::buildDataStore() called on a Value by one of its consumers
\* (Print.cpp:187, FunctionOfVector.h:90, VStack.cpp:75).
BuildDataStore(v) ==
  /\ err = "none"
  /\ ~comps[v[1]][v[2]].stored
  /\ comps' = [comps EXCEPT ![v[1]][v[2]].stored = TRUE]
  /\ last' = [NoCall EXCEPT !.op = "store", !.act = v[1]]
  /\ UNCHANGED <<nnodes, args, natoms, cannotFollow, done_in_chain,
                 action_to_do_before, action_to_do_after, arg_der_start,
                 nderivatives, err>>
  /\ UNCHANGED <<layoutVars, runVars>>
  /\ UNCHANGED extVars

\* addActionToChain called on node x with a node act that is the first of a
\* chain (as both of its call sites pass, lines 101 and 109) or is already
\* in the chain of x (the case lines 124-128 guard against).
CallAddActionToChain(x, alabels, act) ==
  /\ err = "none"
  /\ \/ action_to_do_before[act] = NULL
     \/ InSeq(act, GetAllActionLabelsInChain(action_to_do_after,
                     GetFirstActionInChain(action_to_do_before, x), <<>>))
  /\ LET r == AddActionToChain(comps, action_to_do_before, action_to_do_after,
                               x, alabels, act)
     IN  /\ action_to_do_before' = r.bef
         /\ action_to_do_after' = r.aft
         /\ err' = IF r.res = "error" THEN "order" ELSE "none"
         /\ last' = [op |-> "add", act |-> act, res |-> r.res, tried |-> 0,
                     alabels |-> { alabels[i] : i \in 1..Len(alabels) },
                     present |-> InSeq(act, r.mylabels),
                     missing |->
                       IF \A i \in 1..Len(alabels) : InSeq(alabels[i], r.mylabels)
                       THEN "none"
                       ELSE IF \E i \in 1..Len(alabels) :
                                 /\ ~InSeq(alabels[i], r.mylabels)
                                 /\ \E j \in 1..Len(comps[alabels[i]]) :
                                       ~comps[alabels[i]][j].stored
                            THEN "unstored" ELSE "stored"]
  /\ UNCHANGED <<nnodes, comps, args, natoms, cannotFollow, done_in_chain,
                 arg_der_start, nderivatives>>
  /\ UNCHANGED <<layoutVars, runVars>>
  /\ UNCHANGED extVars

\* getNumberOfTasks called on the first action h of a chain, with ntasks
\* set to 0 as runAllTasks does (lines 170 and 177).
CallGetNumberOfTasks(h) ==
  /\ err = "none"
  /\ action_to_do_before[h] = NULL
  /\ LET r == GetNumberOfTasks(comps, args, action_to_do_after, h, 0)
     IN  /\ ntasks' = r.ntasks
         /\ err' = IF r.res = "ok" THEN "none" ELSE r.res
         /\ last' = [NoCall EXCEPT !.op = "tasks", !.act = h, !.res = r.res]
  /\ UNCHANGED <<nnodes, comps, args, natoms, cannotFollow, done_in_chain,
                 action_to_do_before, action_to_do_after, arg_der_start,
                 nderivatives, bufsize, runVars>>
  /\ UNCHANGED extVars

\* getSizeOfBuffer called on the first action h of a chain, with bufsize
\* set to 0 as runAllTasks does (lines 170 and 197).
CallGetSizeOfBuffer(h) ==
  /\ err = "none"
  /\ action_to_do_before[h] = NULL
  /\ LET r == GetSizeOfBuffer(comps, nderivatives, action_to_do_after, h, 0)
     IN  /\ comps' = r.cmp
         /\ bufsize' = r.bufsize
         /\ last' = [NoCall EXCEPT !.op = "size", !.act = h, !.res = "ok"]
  /\ UNCHANGED <<nnodes, args, natoms, cannotFollow, done_in_chain,
                 action_to_do_before, action_to_do_after, arg_der_start,
                 nderivatives, err, ntasks, runVars>>
  /\ UNCHANGED extVars

\* getNumberOfStreamedQuantities called on the first action h of a chain,
\* with nquants set to 0 as runAllTasks and checkForForces do (lines 194-195
\* and 378-379).
CallGetNumberOfStreamedQuantities(h) ==
  /\ err = "none"
  /\ action_to_do_before[h] = NULL
  /\ LET r == GetNumberOfStreamedQuantities(comps, args, action_to_do_after, h, 0, streampos)
     IN  /\ streampos' = r.streampos
         /\ nquantities' = r.nquants
         /\ last' = [NoCall EXCEPT !.op = "quants", !.act = h, !.res = "ok"]
  /\ UNCHANGED <<nnodes, comps, args, natoms, cannotFollow, done_in_chain,
                 action_to_do_before, action_to_do_after, arg_der_start,
                 nderivatives, err, layoutVars, runVars, nderiv>>
  /\ UNCHANGED otherVars
  /\ UNCHANGED <<rowVars, segmentVars, sweepVars, printVars>>

\* getNumberOfStreamedDerivatives called on the first action h of a chain,
\* with both counters set to 0 (lines 114, 203-204 and 381).
CallGetNumberOfStreamedDerivatives(h) ==
  /\ err = "none"
  /\ action_to_do_before[h] = NULL
  /\ LET r == GetNumberOfStreamedDerivatives(comps, args, natoms, action_to_do_after,
                                             h, 0, 0, arg_der_start)
     IN  /\ arg_der_start' = r.ads
         /\ nderiv' = [nder |-> r.nder, sder |-> r.sder, entry |-> r.entry]
         /\ last' = [NoCall EXCEPT !.op = "derivs", !.act = h, !.res = "ok"]
  /\ UNCHANGED <<nnodes, comps, args, natoms, cannotFollow, done_in_chain,
                 action_to_do_before, action_to_do_after, nderivatives, err,
                 layoutVars, runVars, streampos, nquantities>>
  /\ UNCHANGED otherVars
  /\ UNCHANGED <<rowVars, segmentVars, sweepVars, printVars>>

\* ---- a pass: the processes have no memory in common and meet only in
\* comm.Sum, so their parallel regions are run one after the other, rank 0
\* first; the threads of a region are interleaved step by step. ----

\* The threads of a region as it opens (lines 206-211 and 386-391).
OpenRegion(nthr, size) ==
  /\ tpc' = [t \in 0..(nthr - 1) |-> "loop"]
  /\ iter' = [t \in 0..(nthr - 1) |-> 0]
  /\ omp_buffer' = [t \in 0..(nthr - 1) |-> IF nthr > 1 THEN Zeros(size) ELSE <<>>]
  /\ \E sc \in (IF nthr > 1 THEN {"block", "cyclic"} ELSE {"block"}) : sched' = sc

\* void runAllTasks() on node h, up to the opening of the parallel region.
RunAllTasks(h) ==
  /\ err = "none"
  /\ pc = "idle"
  /\ IF action_to_do_before[h] # NULL
     THEN /\ step' = [NoStep EXCEPT !.op = "skipped"]
          /\ UNCHANGED <<chainVars, layoutVars, nprocs, desired, serial, pc, mode,
                         rank, nt, head, nactive_tasks, buffer, forcesForApply,
                         omp_buffer, tpc, iter, sched, ranby, ranforces>>
     ELSE
       LET r  == GetNumberOfTasks(comps, args, action_to_do_after, h, 0)
           sz == GetSizeOfBuffer(comps, nderivatives, action_to_do_after, h, 0)
           nthr == NumThreads(desired, Stride, r.ntasks)
       IN  /\ ntasks' = r.ntasks
           /\ IF r.res # "ok"
              THEN /\ err' = r.res
                   /\ step' = [NoStep EXCEPT !.op = "failed"]
                   /\ UNCHANGED <<comps, bufsize, pc, mode, rank, nt, head, nactive_tasks,
                                  buffer, omp_buffer, tpc, iter, sched, ranby, ranforces>>
              ELSE /\ head' = h
                   /\ nactive_tasks' = r.ntasks
                   /\ nt' = nthr
                   /\ comps' = sz.cmp
                   /\ bufsize' = sz.bufsize
                   /\ buffer' = [p \in 0..(nprocs - 1) |-> Zeros(sz.bufsize)]
                   /\ ranby' = [p \in 0..(nprocs - 1) |->
                                  [i \in 0..(r.ntasks - 1) |-> <<>>]]
                   /\ ranforces' = ranforces
                   /\ pc' = "parallel"
                   /\ mode' = "forward"
                   /\ rank' = 0
                   /\ OpenRegion(nthr, sz.bufsize)
                   /\ step' = [NoStep EXCEPT !.op = "start"]
                   /\ err' = err
           /\ UNCHANGED <<nnodes, args, natoms, cannotFollow, done_in_chain,
                          action_to_do_before, action_to_do_after, arg_der_start,
                          nderivatives, last, nprocs, desired, serial,
                          forcesForApply>>
  /\ UNCHANGED extVars

\* One iteration of the loop of thread t (lines 214-229 and 394-408):
\* runTask, then gatherAccumulators into omp_buffer when nt>1 and into
\* buffer otherwise; gatherForces is always handed omp_forces and has an
\* empty body (lines 418-420).
RunTask(t) ==
  /\ pc = "parallel"
  /\ t \in DOMAIN tpc
  /\ tpc[t] = "loop"
  /\ LET niter == LoopCount(MyRank, Stride, nactive_tasks)
         h == head
     IN  /\ iter[t] < IterCount(sched, niter, nt, t)
         /\ LET i == LoopIndex(MyRank, Stride, IterIndex(sched, niter, nt, t, iter[t]))
            IN  /\ iter' = [iter EXCEPT ![t] = @ + 1]
                /\ IF mode = "forward"
                   THEN /\ ranby' = [ranby EXCEPT ![rank][i] = Append(@, t)]
                        /\ ranforces' = ranforces
                        /\ IF nt > 1
                           THEN /\ omp_buffer' = [omp_buffer EXCEPT ![t] =
                                       GatherAccumulators(comps, action_to_do_after, h, i, @)]
                                /\ buffer' = buffer
                                /\ step' = [op |-> "task", thread |-> t, wrote |-> "private"]
                           ELSE /\ buffer' = [buffer EXCEPT ![rank] =
                                       GatherAccumulators(comps, action_to_do_after, h, i, @)]
                                /\ omp_buffer' = omp_buffer
                                /\ step' = [op |-> "task", thread |-> t, wrote |-> "shared"]
                   ELSE /\ ranforces' = [ranforces EXCEPT ![rank][i] = Append(@, t)]
                        /\ step' = [op |-> "task", thread |-> t, wrote |-> "private"]
                        /\ UNCHANGED <<ranby, omp_buffer, buffer>>
  /\ UNCHANGED <<chainVars, layoutVars, nprocs, desired, serial, pc, mode, rank,
                 nt, head, nactive_tasks, forcesForApply, tpc, sched>>
  /\ UNCHANGED extVars

\* Thread t has run its iterations (nowait: it waits for no other thread)
\* and enters the critical section.
EnterCritical(t) ==
  /\ pc = "parallel"
  /\ t \in DOMAIN tpc
  /\ tpc[t] = "loop"
  /\ iter[t] = IterCount(sched, LoopCount(MyRank, Stride, nactive_tasks), nt, t)
  /\ CriticalFree(tpc)
  /\ tpc' = [tpc EXCEPT ![t] = "critical"]
  /\ step' = [op |-> "enter", thread |-> t, wrote |-> "none"]
  /\ UNCHANGED <<chainVars, layoutVars, nprocs, desired, serial, pc, mode, rank,
                 nt, head, nactive_tasks, buffer, forcesForApply, omp_buffer, iter,
                 sched, ranby, ranforces>>
  /\ UNCHANGED extVars

\* The statement under omp critical (lines 232 and 411), and the exit.
Merge(t) ==
  /\ pc = "parallel"
  /\ t \in DOMAIN tpc
  /\ tpc[t] = "critical"
  /\ tpc' = [tpc EXCEPT ![t] = "done"]
  /\ IF nt > 1
     THEN /\ step' = [op |-> "merge", thread |-> t, wrote |-> "shared"]
          /\ IF mode = "forward"
             THEN /\ buffer' = [buffer EXCEPT ![rank] = MergeThread(@, omp_buffer[t])]
                  /\ forcesForApply' = forcesForApply
             ELSE /\ forcesForApply' = [forcesForApply EXCEPT ![rank] =
                                           MergeThread(@, omp_buffer[t])]
                  /\ buffer' = buffer
     ELSE /\ step' = [op |-> "merge", thread |-> t, wrote |-> "none"]
          /\ UNCHANGED <<buffer, forcesForApply>>
  /\ UNCHANGED <<chainVars, layoutVars, nprocs, desired, serial, pc, mode, rank,
                 nt, head, nactive_tasks, omp_buffer, iter, sched, ranby, ranforces>>
  /\ UNCHANGED extVars

\* The region of one process has closed; that of the next one opens.
NextProcess ==
  /\ pc = "parallel"
  /\ \A t \in DOMAIN tpc : tpc[t] = "done"
  /\ rank < nprocs - 1
  /\ rank' = rank + 1
  /\ OpenRegion(nt, IF mode = "forward" THEN bufsize ELSE Len(forcesForApply[rank]))
  /\ step' = [NoStep EXCEPT !.op = "next"]
  /\ UNCHANGED <<chainVars, layoutVars, nprocs, desired, serial, pc, mode, nt,
                 head, nactive_tasks, buffer, forcesForApply, ranby, ranforces>>
  /\ UNCHANGED extVars

\* Every region has closed: lines 235-236 (comm.Sum, then
\* finishComputations is handed buffer) and line 414.  trace takes the calls
\* that are made, in order.
FinishPass ==
  /\ pc = "parallel"
  /\ \A t \in DOMAIN tpc : tpc[t] = "done"
  /\ rank = nprocs - 1
  /\ pc' = "finished"
  /\ step' = [NoStep EXCEPT !.op = "sum"]
  /\ IF mode = "forward"
     THEN /\ buffer' = IF ~serial /\ bufsize > 0 THEN CommSum(buffer) ELSE buffer
          /\ forcesForApply' = forcesForApply
          /\ trace' = (IF ~serial /\ bufsize > 0 THEN << <<"comm.Sum", head>> >> ELSE <<>>)
                       \o FinishCalls(action_to_do_after, active, head)
     ELSE /\ forcesForApply' = IF ~serial THEN CommSum(forcesForApply)
                                ELSE forcesForApply
          /\ buffer' = buffer
          /\ trace' = IF ~serial THEN << <<"comm.Sum", head>> >> ELSE <<>>
  /\ UNCHANGED <<chainVars, layoutVars, nprocs, desired, serial, mode, rank, nt,
                 head, nactive_tasks, omp_buffer, tpc, iter, sched, ranby, ranforces>>
  /\ UNCHANGED <<active, calc, phase, itask, myvals, touched, data, value_set>>
  /\ UNCHANGED <<streamVars, forceVars, rowVars, segmentVars, sweepVars, printVars>>

\* bool checkForForces() on node h, called by apply() after the forward
\* pass, up to the opening of the parallel region.  forced is what
\* checkChainForNonScalarForces returns.
CheckForForces(h, forced) ==
  /\ err = "none"
  /\ pc = "finished"
  /\ mode = "forward"
  /\ (comps[h][1].rank # 0 /\ action_to_do_before[h] = NULL) => h = head
  /\ IF comps[h][1].rank = 0
     THEN /\ step' = [NoStep EXCEPT !.op = "base"]
          /\ UNCHANGED <<pc, mode, rank, nt, forcesForApply, omp_buffer, tpc,
                         iter, sched, arg_der_start, ranforces>>
     ELSE IF ActionInChain(action_to_do_before, h) \/ ~forced
     THEN /\ step' = [NoStep EXCEPT !.op = "noforces"]
          /\ UNCHANGED <<pc, mode, rank, nt, forcesForApply, omp_buffer, tpc,
                         iter, sched, arg_der_start, ranforces>>
     ELSE LET nthr == NumThreads(desired, Stride, nactive_tasks)
              d == GetNumberOfStreamedDerivatives(comps, args, natoms,
                     action_to_do_after, h, 0, 0, arg_der_start)
          IN  /\ nt' = nthr
              /\ arg_der_start' = d.ads
              /\ forcesForApply' = [p \in 0..(nprocs - 1) |-> Zeros(d.nder)]
              /\ pc' = "parallel"
              /\ mode' = "forces"
              /\ rank' = 0
              /\ ranforces' = [p \in 0..(nprocs - 1) |->
                                  [i \in 0..(nactive_tasks - 1) |-> <<>>]]
              /\ OpenRegion(nthr, d.nder)
              /\ step' = [NoStep EXCEPT !.op = "start"]
  /\ UNCHANGED <<nnodes, comps, args, natoms, cannotFollow, done_in_chain,
                 action_to_do_before, action_to_do_after, nderivatives, err, last,
                 layoutVars, nprocs, desired, serial, head, nactive_tasks, buffer, ranby>>
  /\ UNCHANGED extVars

\* ---- a pass of one process and one thread, one statement of the body of
\* the task loop at a time ----

\* A node is switched off before the step is calculated (Action::deactivate).
Deactivate(n) ==
  /\ err = "none"
  /\ calc = 0
  /\ phase = "none"
  /\ n \in 1..nnodes
  /\ active[n]
  /\ active' = [active EXCEPT ![n] = FALSE]
  /\ step' = [NoStep EXCEPT !.op = "deactivate"]
  /\ UNCHANGED <<chainVars, layoutVars, streamVars>>
  /\ UNCHANGED <<nprocs, desired, serial, pc, mode, rank, nt, head, nactive_tasks,
                 buffer, forcesForApply, omp_buffer, tpc, iter, sched, ranby, ranforces>>
  /\ UNCHANGED <<calc, phase, itask, myvals, trace, touched, data, value_set>>
  /\ UNCHANGED forceVars
  /\ UNCHANGED <<rowVars, segmentVars, sweepVars, printVars>>

\* calculate() of the next node of the input (FunctionOfVector.h:279-287): a
\* node in a chain returns at once, the first node of a chain calls
\* runAllTasks, which is followed here to the top of the task loop (lines
\* 168-211) on one process and one thread, with derivatives required.
Calculate ==
  /\ err = "none"
  /\ phase = "none"
  /\ calc < nnodes
  /\ LET h == calc + 1
     IN
     IF action_to_do_before[h] # NULL
     THEN /\ calc' = h
          /\ step' = [NoStep EXCEPT !.op = "skipped"]
          /\ UNCHANGED <<chainVars, layoutVars, streamVars>>
          /\ UNCHANGED <<pc, mode, head, nactive_tasks, buffer>>
          /\ UNCHANGED <<phase, itask, myvals, trace, touched, nactive_of>>
     ELSE
       LET r  == GetNumberOfTasks(comps, args, action_to_do_after, h, 0)
           q  == GetNumberOfStreamedQuantities(comps, args, action_to_do_after, h, 0,
                                               streampos)
           sz == GetSizeOfBuffer(comps, nderivatives, action_to_do_after, h, 0)
           d  == GetNumberOfStreamedDerivatives(comps, args, natoms,
                   action_to_do_after, h, 0, 0, arg_der_start)
       IN  /\ ntasks' = r.ntasks
           /\ IF r.res # "ok"
              THEN /\ err' = r.res
                   /\ step' = [NoStep EXCEPT !.op = "failed"]
                   /\ UNCHANGED <<comps, arg_der_start, bufsize, streamVars, calc>>
                   /\ UNCHANGED <<pc, mode, head, nactive_tasks, buffer>>
                   /\ UNCHANGED <<phase, itask, myvals, trace, touched, nactive_of>>
              ELSE /\ err' = err
                   /\ head' = h
                   /\ nactive_tasks' = r.ntasks
                   /\ nactive_of' = [nactive_of EXCEPT ![h] = r.ntasks]
                   /\ streampos' = q.streampos
                   /\ nquantities' = q.nquants
                   /\ comps' = sz.cmp
                   /\ bufsize' = sz.bufsize
                   /\ buffer' = [p \in 0..(nprocs - 1) |->
                                   ClearBuffer(buffer[p], sz.bufsize)]
                   /\ arg_der_start' = d.ads
                   /\ nderiv' = [nder |-> d.nder, sder |-> d.sder, entry |-> d.entry]
                   /\ myvals' = NewMultiValue(q.nquants, d.nder)
                   /\ itask' = 0
                   /\ phase' = IF r.ntasks > 0 THEN "runTask" ELSE "finish"
                   /\ trace' = <<>>
                   /\ touched' = {}
                   /\ pc' = "parallel"
                   /\ mode' = "forward"
                   /\ step' = [NoStep EXCEPT !.op = "start"]
                   /\ calc' = calc
           /\ UNCHANGED <<nnodes, args, natoms, cannotFollow, done_in_chain,
                          action_to_do_before, action_to_do_after, nderivatives, last>>
  /\ UNCHANGED <<nprocs, desired, serial, rank, nt, forcesForApply, omp_buffer, tpc,
                 iter, sched, ranby, ranforces>>
  /\ UNCHANGED <<active, data, value_set>>
  /\ UNCHANGED <<hasForce, applying, applied, atomForces, argForces, contrib>>
  /\ UNCHANGED <<rowVars, segmentVars, sweepVars, printVars>>

\* Line 217 (and 397 in the force pass): runTask( i, myvals ).
TaskPerform ==
  /\ err = "none"
  /\ phase = "runTask"
  /\ LET r == RunTaskChain(comps, args, natoms, action_to_do_before,
                           action_to_do_after, streampos, arg_der_start, data,
                           value_set, active, head, itask, myvals)
     IN  /\ myvals' = r.mv
         /\ trace' = r.calls
         /\ err' = r.mv.fault
         /\ phase' = "gather"
  /\ step' = [op |-> "task", thread |-> 0, wrote |-> "scratch"]
  /\ UNCHANGED <<nnodes, comps, args, natoms, cannotFollow, done_in_chain,
                 action_to_do_before, action_to_do_after, arg_der_start,
                 nderivatives, last>>
  /\ UNCHANGED <<layoutVars, streamVars>>
  /\ UNCHANGED <<nprocs, desired, serial, pc, mode, rank, nt, head, nactive_tasks,
                 buffer, forcesForApply, omp_buffer, tpc, iter, sched, ranby, ranforces>>
  /\ UNCHANGED <<active, calc, itask, touched, data, value_set>>
  /\ UNCHANGED forceVars
  /\ UNCHANGED <<rowVars, segmentVars, sweepVars, printVars>>

\* Line 225: gatherAccumulators( i, myvals, buffer ), nt being 1.
TaskGather ==
  /\ err = "none"
  /\ phase = "gather"
  /\ mode = "forward"
  /\ LET w == GatherWrites(comps, action_to_do_after, streampos, active, head,
                           itask, myvals)
     IN  /\ buffer' = [buffer EXCEPT ![0] = ApplyWrites(@, w)]
         /\ touched' = { [v |-> w[k].v, index |-> w[k].index] : k \in 1..Len(w) }
         /\ trace' = trace \o GatherCalls(action_to_do_after, active, head)
  /\ phase' = "clear"
  /\ step' = [op |-> "gather", thread |-> 0, wrote |-> "shared"]
  /\ UNCHANGED <<chainVars, layoutVars, streamVars>>
  /\ UNCHANGED <<nprocs, desired, serial, pc, mode, rank, nt, head, nactive_tasks,
                 forcesForApply, omp_buffer, tpc, iter, sched, ranby, ranforces>>
  /\ UNCHANGED <<active, calc, itask, myvals, data, value_set>>
  /\ UNCHANGED forceVars
  /\ UNCHANGED <<rowVars, segmentVars, sweepVars, printVars>>

\* Line 229: myvals.clearAll(true), and the loop goes to the next task.
TaskClear ==
  /\ err = "none"
  /\ phase = "clear"
  /\ myvals' = ClearAll(myvals)
  /\ itask' = itask + 1
  /\ trace' = <<>>
  /\ phase' = IF itask + 1 < nactive_tasks THEN "runTask" ELSE "finish"
  /\ step' = [op |-> "clear", thread |-> 0, wrote |-> "scratch"]
  /\ UNCHANGED <<chainVars, layoutVars, streamVars>>
  /\ UNCHANGED <<nprocs, desired, serial, pc, mode, rank, nt, head, nactive_tasks,
                 buffer, forcesForApply, omp_buffer, tpc, iter, sched, ranby, ranforces>>
  /\ UNCHANGED <<active, calc, touched, data, value_set>>
  /\ UNCHANGED forceVars
  /\ UNCHANGED <<rowVars, segmentVars, sweepVars, printVars>>

\* Lines 235-236: finishComputations( buffer ) (comm.Sum has one process to
\* sum over), and calculate() returns.
TaskFinish ==
  /\ err = "none"
  /\ phase = "finish"
  /\ mode = "forward"
  /\ data' = FinishComputations(comps, nderivatives, action_to_do_after, active,
                                head, buffer[0], data)
  /\ value_set' = [v \in AllValues |->
                     value_set[v] \/ Len(data'[v]) > 0]
  /\ touched' = FinishReads(comps, nderivatives, action_to_do_after, active, head)
  /\ phase' = "none"
  /\ pc' = "finished"
  /\ calc' = calc + 1
  /\ step' = [NoStep EXCEPT !.op = "finish"]
  /\ UNCHANGED <<chainVars, layoutVars, streamVars>>
  /\ UNCHANGED <<nprocs, desired, serial, mode, rank, nt, head, nactive_tasks,
                 buffer, forcesForApply, omp_buffer, tpc, iter, sched, ranby, ranforces>>
  /\ UNCHANGED <<active, itask, myvals, trace>>
  /\ UNCHANGED forceVars
  /\ UNCHANGED <<rowVars, segmentVars, sweepVars, printVars>>

\* The next step of the calculation: calculate() is called again on every
\* node, in the order of the input, with the input unchanged.  Nothing is
\* cleared in between: buffer and the data of the Values hold what the last
\* pass left in them.
NextSweep ==
  /\ err = "none"
  /\ phase = "none"
  /\ nnodes > 0
  /\ calc = nnodes
  /\ applying = 0
  /\ sweep < MaxSweeps
  /\ calc' = 0
  /\ sweep' = sweep + 1
  /\ step' = [NoStep EXCEPT !.op = "nextstep"]
  /\ UNCHANGED <<chainVars, layoutVars, streamVars>>
  /\ UNCHANGED <<nprocs, desired, serial, pc, mode, rank, nt, head, nactive_tasks,
                 buffer, forcesForApply, omp_buffer, tpc, iter, sched, ranby, ranforces>>
  /\ UNCHANGED <<active, phase, itask, myvals, trace, touched, data, value_set>>
  /\ UNCHANGED forceVars
  /\ UNCHANGED <<rowVars, segmentVars, printVars>>

\* ---- apply(): the nodes are applied in the reverse of the order of the
\* input, once every node has been calculated ----

\* A consumer (a bias) adds a force to a Value it has as argument.
AddForce(v) ==
  /\ err = "none"
  /\ phase = "none"
  /\ nnodes > 0
  /\ calc = nnodes
  /\ applying = 0
  /\ ~hasForce[v]
  /\ hasForce' = [hasForce EXCEPT ![v] = TRUE]
  /\ step' = [NoStep EXCEPT !.op = "force"]
  /\ UNCHANGED <<chainVars, layoutVars, streamVars, taskVars>>
  /\ UNCHANGED <<nprocs, desired, serial, pc, mode, rank, nt, head, nactive_tasks,
                 buffer, forcesForApply, omp_buffer, tpc, iter, sched, ranby, ranforces>>
  /\ UNCHANGED <<nactive_of, applying, applied, atomForces, argForces, contrib>>
  /\ UNCHANGED <<rowVars, segmentVars, sweepVars, printVars>>

\* The end of apply() of node n once checkForForces has returned true (line
\* 426): addForcesToInput is called on the first node of the chain of n.
Distribute(n, forces) ==
  LET r == AddForcesToInput(comps, args, natoms, action_to_do_after,
                            GetFirstActionInChain(action_to_do_before, n),
                            forces, 0, atomForces, argForces)
  IN  /\ atomForces' = r.atomForces
      /\ argForces' = r.argForces
      /\ applied' = [node |-> n, returned |-> TRUE, addForcesToInput |-> TRUE]

\* apply() of the next node (lines 422-426), with checkForForces (lines
\* 358-382) followed to the top of its task loop when it runs one.
Apply ==
  /\ err = "none"
  /\ phase = "none"
  /\ nnodes > 0
  /\ calc = nnodes
  /\ applying < nnodes
  /\ LET n == nnodes - applying
         s == ScalarForces(comps, nderivatives, data, hasForce, n)
         returnsFalse ==
           /\ applied' = [node |-> n, returned |-> FALSE, addForcesToInput |-> FALSE]
           /\ applying' = applying + 1
           /\ step' = [NoStep EXCEPT !.op = "noforces"]
           /\ UNCHANGED <<arg_der_start, streamVars, forcesForApply, mode, head,
                          nactive_tasks, phase, itask, myvals, trace,
                          atomForces, argForces, contrib>>
     IN  IF comps[n][1].rank = 0
         THEN IF s.any
              THEN /\ forcesForApply' = [forcesForApply EXCEPT ![0] = s.forces]
                   /\ Distribute(n, s.forces)
                   /\ applying' = applying + 1
                   /\ step' = [NoStep EXCEPT !.op = "base"]
                   /\ UNCHANGED <<arg_der_start, streamVars, mode, head,
                                  nactive_tasks, phase, itask, myvals, trace, contrib>>
              ELSE returnsFalse
         ELSE IF action_to_do_before[n] # NULL THEN returnsFalse
         ELSE IF ~CheckChainForNonScalarForces(comps, action_to_do_after, hasForce, n)
         THEN returnsFalse
         ELSE LET q == GetNumberOfStreamedQuantities(comps, args, action_to_do_after,
                                                     n, 0, streampos)
                  d == GetNumberOfStreamedDerivatives(comps, args, natoms,
                         action_to_do_after, n, 0, 0, arg_der_start)
              IN  /\ streampos' = q.streampos
                  /\ nquantities' = q.nquants
                  /\ arg_der_start' = d.ads
                  /\ nderiv' = [nder |-> d.nder, sder |-> d.sder, entry |-> d.entry]
                  /\ forcesForApply' = [forcesForApply EXCEPT ![0] = Zeros(d.nder)]
                  /\ contrib' = Zeros(d.nder)
                  /\ myvals' = NewMultiValue(q.nquants, d.nder)
                  /\ head' = n
                  /\ nactive_tasks' = nactive_of[n]
                  /\ itask' = 0
                  /\ trace' = <<>>
                  /\ phase' = IF nactive_of[n] > 0 THEN "runTask" ELSE "finish"
                  /\ mode' = "forces"
                  /\ step' = [NoStep EXCEPT !.op = "start"]
                  /\ UNCHANGED <<applying, applied, atomForces, argForces>>
  /\ UNCHANGED <<nnodes, comps, args, natoms, cannotFollow, done_in_chain,
                 action_to_do_before, action_to_do_after, nderivatives, err, last>>
  /\ UNCHANGED layoutVars
  /\ UNCHANGED <<nprocs, desired, serial, pc, rank, nt, buffer, omp_buffer, tpc,
                 iter, sched, ranby, ranforces>>
  /\ UNCHANGED <<active, calc, touched, data, value_set, nactive_of, hasForce>>
  /\ UNCHANGED <<rowVars, segmentVars, sweepVars, printVars>>

\* Lines 400-406: gatherForces( i, myvals, omp_forces ) on the first node of
\* the chain.  nt being 1, omp_forces was not resized (line 389) and has no
\* element: whatever gatherForces adds is added outside it, which is
\* undefined behaviour; the additions are lost or the program faults.
\* forcesForApply is not handed to gatherForces.
ForcesGather ==
  /\ err = "none"
  /\ phase = "gather"
  /\ mode = "forces"
  /\ LET c == GatherForces(comps, args, streampos, hasForce, head, itask, myvals,
                           Len(contrib))
         omp_forces == <<>>
         outside == \E k \in DOMAIN c : c[k] # 0 /\ k \notin DOMAIN omp_forces
     IN  /\ contrib' = [k \in DOMAIN contrib |-> contrib[k] + c[k]]
         /\ \E fault \in (IF outside THEN BOOLEAN ELSE {FALSE}) :
               err' = IF fault THEN "range" ELSE err
  /\ phase' = "clear"
  /\ trace' = Append(trace, <<"gatherForces", head>>)
  /\ step' = [op |-> "gather", thread |-> 0, wrote |-> "private"]
  /\ UNCHANGED <<nnodes, comps, args, natoms, cannotFollow, done_in_chain,
                 action_to_do_before, action_to_do_after, arg_der_start,
                 nderivatives, last>>
  /\ UNCHANGED <<layoutVars, streamVars>>
  /\ UNCHANGED <<nactive_of, hasForce, applying, applied, atomForces, argForces>>
  /\ UNCHANGED <<nprocs, desired, serial, pc, mode, rank, nt, head, nactive_tasks,
                 buffer, forcesForApply, omp_buffer, tpc, iter, sched, ranby, ranforces>>
  /\ UNCHANGED <<active, calc, itask, myvals, touched, data, value_set>>
  /\ UNCHANGED <<rowVars, segmentVars, sweepVars, printVars>>

\* Lines 414-415 and 426: checkForForces returns true (comm.Sum has one
\* process to sum over) and apply() hands forcesForApply to addForcesToInput.
ApplyFinish ==
  /\ err = "none"
  /\ phase = "finish"
  /\ mode = "forces"
  /\ Distribute(head, forcesForApply[0])
  /\ applying' = applying + 1
  /\ phase' = "none"
  /\ mode' = "none"
  /\ step' = [NoStep EXCEPT !.op = "sum"]
  /\ UNCHANGED <<chainVars, layoutVars, streamVars>>
  /\ UNCHANGED <<nprocs, desired, serial, pc, rank, nt, head, nactive_tasks,
                 buffer, forcesForApply, omp_buffer, tpc, iter, sched, ranby, ranforces>>
  /\ UNCHANGED <<active, calc, itask, myvals, trace, touched, data, value_set>>
  /\ UNCHANGED <<nactive_of, hasForce, contrib>>
  /\ UNCHANGED <<rowVars, segmentVars, sweepVars, printVars>>

\* ---- the end of a row of a matrix node: performTask has been run for the
\* ---- elements of the row, and the scratch of the row was cleared before ----

\* VStack::runEndOfRowJobs for the next row; the arguments' streams hold
\* nactive[i] active indices.
RowVStack(nactive) ==
  /\ matrix.kind = "VStack"
  /\ matrix.row < matrix.rows
  /\ rowjobs.fault = "none"
  /\ LET r == VStackRunEndOfRowJobs(matrix, nactive, 0)
     IN  /\ rowjobs' = r
         /\ matrix' = [matrix EXCEPT !.row = @ + 1, !.size = r.size]
  /\ UNCHANGED <<chainVars, layoutVars, runVars, streamVars, otherVars, segmentVars,
                 sweepVars, printVars>>

\* FunctionOfMatrix::runEndOfRowJobs for the next row; the array of argument
\* i holds count[i] row derivatives.
RowFunctionOfMatrix(count) ==
  /\ matrix.kind = "FunctionOfMatrix"
  /\ matrix.row < matrix.rows
  /\ rowjobs.fault = "none"
  /\ LET r == FunctionOfMatrixRunEndOfRowJobs(matrix, count)
     IN  /\ rowjobs' = r
         /\ matrix' = [matrix EXCEPT !.row = @ + 1, !.size = r.size]
  /\ UNCHANGED <<chainVars, layoutVars, runVars, streamVars, otherVars, segmentVars,
                 sweepVars, printVars>>

\* ---- the constructor of a PARABETARMSD shortcut ----

\* ParabetaRMSD::ParabetaRMSD with STYLE=style, for the chains (numbers of
\* backbone atoms) that readBackboneAtoms returned.
ParabetaRMSD(style, chains) ==
  /\ rmsd.style = "none"
  /\ LET st == SegmentList(style, chains)
     IN  /\ rmsd' = [style |-> style, chains |-> chains, fault |-> st.fault]
         /\ segments' = st.segs
  /\ UNCHANGED <<chainVars, layoutVars, runVars, streamVars, otherVars, rowVars,
                 sweepVars, printVars>>

\* ---- a PRINT action: its constructor, the steps of the calculation, the
\* ---- calls of update() and the calls of runFinalJobs() ----

\* The constructor (Print.cpp:145-360): tstyle is the extension of FILE,
\* timeseries whether the first argument is a stored time series, gridinput
\* whether an argument of an xyz file is a grid, averages whether there are
\* arguments and all of them are made by an AverageBase.
PrintConstruct(tstyle, STRIDE, timeseries, gridinput, averages) ==
  /\ ~print.made
  /\ LET st == PrintStride(tstyle, STRIDE, timeseries, gridinput)
     IN  print' = [made |-> TRUE, tstyle |-> tstyle, timeseries |-> timeseries,
                   gridinput |-> gridinput, averages |-> averages,
                   STRIDE |-> STRIDE, stride |-> st.stride,
                   printAtEnd |-> st.printAtEnd]
  /\ UNCHANGED <<clock, written>>
  /\ UNCHANGED <<chainVars, layoutVars, runVars, streamVars, otherVars, rowVars,
                 segmentVars, sweepVars>>

\* The calculation moves to the next step; no step follows the final jobs.
PrintStep ==
  /\ print.made
  /\ written.finals = 0
  /\ clock < MaxStep
  /\ clock' = clock + 1
  /\ UNCHANGED <<print, written>>
  /\ UNCHANGED <<chainVars, layoutVars, runVars, streamVars, otherVars, rowVars,
                 segmentVars, sweepVars>>

\* update() is called during the calculation (Print.cpp:393-655).
PrintUpdate ==
  /\ print.made
  /\ written.finals = 0
  /\ written.update < MaxWrites
  /\ written' = IF UpdateWrites(print, clock)
                THEN [written EXCEPT !.update = @ + 1] ELSE written
  /\ UNCHANGED <<print, clock>>
  /\ UNCHANGED <<chainVars, layoutVars, runVars, streamVars, otherVars, rowVars,
                 segmentVars, sweepVars>>

\* runFinalJobs() (Print.cpp:657-660): if( !printAtEnd ) return;
\* printAtEnd=false; update();
RunFinalJobs ==
  /\ print.made
  /\ written.finals < MaxFinals
  /\ IF ~print.printAtEnd
     THEN /\ print' = print
          /\ written' = [written EXCEPT !.finals = @ + 1]
     ELSE /\ print' = [print EXCEPT !.printAtEnd = FALSE]
          /\ LET wrote == IF UpdateWrites(print', clock) THEN 1 ELSE 0
             IN  written' = IF written.finals = 0
                            THEN [written EXCEPT !.finals = @ + 1, !.first = @ + wrote]
                            ELSE [written EXCEPT !.finals = @ + 1, !.later = @ + wrote]
  /\ clock' = clock
  /\ UNCHANGED <<chainVars, layoutVars, runVars, streamVars, otherVars, rowVars,
                 segmentVars, sweepVars>>

\* ---- the inputs of the chain-building specification ----
ShapeC == 2
Scalar      == MkValue(0, TRUE, 0, FALSE)
Vector(s)   == MkValue(1, FALSE, s, FALSE)
ConstVec(s) == MkValue(1, FALSE, s, TRUE)
Grid(s)     == MkValue(1, TRUE, s, FALSE)

CompListsFused == { <<Vector(ShapeC)>>, <<Scalar>> }

CompListsChain == CompListsFused \cup
  { <<Vector(ShapeC), Vector(ShapeC)>>, <<ConstVec(ShapeC)>>, <<Grid(ShapeC)>> }

ConstructChain ==
  \E cs \in CompListsChain, as \in SeqsUpTo(FirstValuesSoFar, MaxArgs),
     cf \in { {}, 1..nnodes } \cap (IF nnodes = 1 THEN { {}, {1} } ELSE { {} }),
     dic \in BOOLEAN :
     /\ (nnodes > 0 => cs \in CompListsFused)
     /\ Construct(cs, as, 0, cf, dic, 0)

StoreChain == \E v \in FirstValuesSoFar : BuildDataStore(v)

NextChain == ConstructChain \/ StoreChain

SpecChain == InitChain /\ [][NextChain]_vars

\* ---- the inputs of the specification of direct addActionToChain calls ----
\* Nodes that ask for no fusion are made first; the chains are then built by
\* the calls alone.
CompListsCalls == { <<Vector(ShapeC)>>, <<Vector(ShapeC), Vector(ShapeC)>> }

ConstructCalls ==
  \E cs \in CompListsCalls, cf \in { {}, {1} } :
     /\ (cf # {} => nnodes = 1)
     /\ (nnodes > 0 => Len(cs) = 1)
     /\ Construct(cs, <<>>, 0, cf, FALSE, 0)

StoreCalls == \E v \in FirstValuesSoFar : BuildDataStore(v)

\* alabels holds the nodes act takes its arguments from (lines 79-84), so
\* act is not among them.
AddCalls ==
  \E x \in 1..nnodes, act \in 1..nnodes,
     alabels \in SeqsUpTo(1..nnodes, MaxArgs) :
     /\ \A i \in 1..Len(alabels) : alabels[i] # act
     /\ \A i \in 1..Len(alabels) : \A j \in 1..(i - 1) : alabels[j] < alabels[i]
     /\ CallAddActionToChain(x, alabels, act)

NextCalls == ConstructCalls \/ StoreCalls \/ AddCalls

SpecCalls == InitChain /\ [][NextCalls]_vars

\* ---- the inputs of the layout specification ----
\* Chains are built by the constructors, over vectors of three lengths (one
\* of them empty) and scalars computed from them.  The layout calls are made
\* by runAllTasks, that is from calculate(), after the input has been read:
\* no node is constructed once a layout call has been made.
ShapeD == 3

CompListsFirst ==
  { <<Vector(0)>>, <<Vector(ShapeC)>>, <<Vector(ShapeC), Vector(ShapeD)>> }

CompListsLater == { <<Vector(ShapeC)>>, <<Vector(ShapeD)>>, <<Scalar>> }

CompListsLayout == CompListsFirst \cup CompListsLater

Reading == last.op \notin {"tasks", "size"}

ConstructLayout ==
  \E cs \in CompListsLayout, as \in SeqsUpTo(FirstValuesSoFar, MaxArgs),
     dic \in BOOLEAN :
     /\ cs \in (IF nnodes = 0 THEN CompListsFirst ELSE CompListsLater)
     /\ (cs[1].rank = 0 => Len(as) > 0)
     /\ (Len(as) = 0 => ~dic)
     /\ Reading
     /\ Construct(cs, as, 0, {}, dic, 0)

StoreLayout ==
  \E v \in FirstValuesSoFar :
     /\ ValueOf(comps, v).rank > 0
     /\ Reading
     /\ BuildDataStore(v)

TasksLayout ==
  \E h \in 1..nnodes : CallGetNumberOfTasks(h)

SizeLayout ==
  \E h \in 1..nnodes : CallGetSizeOfBuffer(h)

NextLayout == ConstructLayout \/ StoreLayout \/ TasksLayout \/ SizeLayout

SpecLayout == InitChain /\ [][NextLayout]_vars

\* ---- the inputs of the stream-layout specification ----
\* Chains are built by the constructors: leaves with or without atoms, and
\* functions of the first component of up to MaxArgs earlier nodes.  The two
\* stream-layout calls are made after the input has been read.
CompListsStreamFirst == { <<Vector(ShapeC)>>, <<Vector(ShapeC), Vector(ShapeD)>> }

CompListsStreamLater == { <<Vector(ShapeC)>>, <<Scalar>> }

ReadingStream == last.op \notin {"quants", "derivs"}

ConstructStream ==
  \E cs \in CompListsStreamFirst \cup CompListsStreamLater,
     as \in SeqsUpTo(FirstValuesSoFar, MaxArgs), nat \in {0, 1}, dic \in BOOLEAN :
     /\ cs \in (IF Len(as) = 0 THEN CompListsStreamFirst ELSE CompListsStreamLater)
     /\ (Len(as) = 0 => ~dic)
     /\ (Len(as) > 0 => nat = 0)
     /\ (nnodes > 0 => Len(cs) = 1)
     /\ ReadingStream
     /\ Construct(cs, as, nat, {}, dic, 0)

StoreStream ==
  \E v \in FirstValuesSoFar :
     /\ ValueOf(comps, v).rank > 0
     /\ ReadingStream
     /\ BuildDataStore(v)

QuantsStream ==
  \E h \in 1..nnodes : CallGetNumberOfStreamedQuantities(h)

DerivsStream ==
  \E h \in 1..nnodes : CallGetNumberOfStreamedDerivatives(h)

NextStream == ConstructStream \/ StoreStream \/ QuantsStream \/ DerivsStream

SpecStream == InitChain /\ [][NextStream]_vars

\* ---- the inputs of the task specification ----
\* A node without arguments is a source of atom positions (one atom, its
\* three coordinates), or a vector that depends on no atom, which may be
\* empty.  A node with arguments is a FunctionOfVector: its constructor gives
\* a vector component the length getNumberOfFinalTasks finds in the arguments
\* (FunctionOfVector.h:234-251) and a scalar component derivatives.  The
\* input is read, then some nodes are switched off, then the nodes are
\* calculated in the order of the input.
NAtomsTask == 1

SourceLength == 3 * NAtomsTask

\* A node is switched off only while no other one is.
MaxInactive == 1

\* getNumberOfFinalTasks: the length of the first rank 1 argument that has
\* one, -1 for the error "all vectors input should have the same length".
RECURSIVE GetNumberOfFinalTasks(_, _, _, _)
GetNumberOfFinalTasks(cmp, as, i, nelements) ==
  IF i > Len(as) THEN nelements
  ELSE LET v == ValueOf(cmp, as[i])
       IN  IF v.rank = 1
           THEN IF nelements > 0
                THEN IF v.shape0 # nelements THEN -1
                     ELSE GetNumberOfFinalTasks(cmp, as, i + 1, nelements)
                ELSE GetNumberOfFinalTasks(cmp, as, i + 1, v.shape0)
           ELSE GetNumberOfFinalTasks(cmp, as, i + 1, nelements)

InputTask == calc = 0 /\ phase = "none" /\ active = [n \in Nodes |-> TRUE]

\* The constructors of the input: a node without arguments of one of the
\* lengths lens, or a FunctionOfVector of Values that exist.
SourceInputs(lens) ==
  { in \in { [cs |-> <<Vector(len)>>, as |-> <<>>, nat |-> nat, dic |-> FALSE] :
               len \in lens, nat \in {0, NAtomsTask} } :
      in.nat > 0 => in.cs[1].shape0 = SourceLength }

FunctionInputs ==
  { [cs |-> IF scalar THEN <<Scalar>>
            ELSE <<Vector(GetNumberOfFinalTasks(comps, as, 1, 0))>>,
     as |-> as, nat |-> 0, dic |-> dic] :
    as \in { x \in SeqsUpTo(FirstValuesSoFar, MaxArgs) :
               Len(x) > 0 /\ GetNumberOfFinalTasks(comps, x, 1, 0) >= 0 },
    scalar \in BOOLEAN, dic \in BOOLEAN }

ConstructTask ==
  \E in \in SourceInputs({0, SourceLength}) \cup FunctionInputs :
     /\ InputTask
     /\ Construct(in.cs, in.as, in.nat, {}, in.dic, 0)

StoreTask ==
  \E v \in FirstValuesSoFar :
     /\ InputTask
     /\ ValueOf(comps, v).rank > 0
     /\ BuildDataStore(v)

DeactivateTask ==
  \E n \in 1..nnodes :
     /\ Cardinality({ k \in 1..nnodes : ~active[k] }) < MaxInactive
     /\ Deactivate(n)

NextTask ==
  \/ ConstructTask
  \/ StoreTask
  \/ DeactivateTask
  \/ Calculate
  \/ TaskPerform
  \/ TaskGather
  \/ TaskClear
  \/ TaskFinish

SpecTask == InitChain /\ [][NextTask]_vars

\* ---- the inputs of the force specification ----
\* Sources of SourceLength elements, with or without an atom behind them,
\* functions of them, and consumers that add a force to at most MaxForces
\* of the Values once every node has been calculated.
MaxForces == 2

ConstructApply ==
  \E in \in SourceInputs({SourceLength}) \cup FunctionInputs :
     /\ InputTask
     /\ Construct(in.cs, in.as, in.nat, {}, in.dic, 0)

StoreApply ==
  \E v \in FirstValuesSoFar :
     /\ InputTask
     /\ ValueOf(comps, v).rank > 0
     /\ BuildDataStore(v)

ForceApply ==
  \E v \in FirstValuesSoFar :
     /\ Cardinality({ w \in AllValues : hasForce[w] }) < MaxForces
     /\ AddForce(v)

NextApply ==
  \/ ConstructApply
  \/ StoreApply
  \/ Calculate
  \/ TaskPerform
  \/ TaskGather
  \/ TaskClear
  \/ TaskFinish
  \/ ForceApply
  \/ Apply
  \/ ForcesGather
  \/ ApplyFinish

SpecApply == InitChain /\ [][NextApply]_vars

\* ---- the inputs of the repeated-pass specification ----
\* The input is read once, before the first step; then the nodes are
\* calculated in the order of the input, step after step.
ConstructSweeps ==
  \E in \in SourceInputs({SourceLength}) \cup FunctionInputs :
     /\ InputTask
     /\ sweep = 0
     /\ Construct(in.cs, in.as, in.nat, {}, in.dic, 0)

StoreSweeps ==
  \E v \in FirstValuesSoFar :
     /\ InputTask
     /\ sweep = 0
     /\ ValueOf(comps, v).rank > 0
     /\ BuildDataStore(v)

NextSweeps ==
  \/ ConstructSweeps
  \/ StoreSweeps
  \/ Calculate
  \/ TaskPerform
  \/ TaskGather
  \/ TaskClear
  \/ TaskFinish
  \/ NextSweep

SpecSweeps == InitChain /\ [][NextSweeps]_vars

\* ---- the inputs of the matrix-row specification ----

MaxRows == 2

\* The largest number of derivatives of a pass.
MaxWidth == 3

\* The largest number of columns of a matrix argument.
MaxCols == 2

\* The arguments of a VSTACK: one or two vectors of the same length, made by
\* one action or by two, with derivatives among the cap of the pass.
VectorArgs(cap) ==
  LET one(a) == [action |-> a, rank |-> 1, ads |-> 0, cols |-> 0, width |-> cap]
  IN  {<<one(1)>>} \cup {<<one(1), one(a)>> : a \in 1..2}

\* A VSTACK; cap is the size the scratch gives the array of row-derivative
\* indices, the number of derivatives of the pass.
VStackNode(nd, ct, rows, cap, as) ==
  [kind |-> "VStack", noderiv |-> nd, continues |-> ct, inchain |-> TRUE, rank |-> 2,
   ncomps |-> 1, argstart |-> 0, nderivatives |-> cap, rows |-> rows, row |-> 0,
   args |-> as, size |-> <<cap>>]

VStackNodes ==
  UNION { { VStackNode(nd, ct, rows, cap, as) : as \in VectorArgs(cap) } :
          nd \in BOOLEAN, ct \in BOOLEAN, rows \in 1..MaxRows, cap \in 0..MaxWidth }

\* The arguments of a function of matrices: scalars and matrices, at least
\* one matrix, each with its block of derivatives (start ads, width).
MatrixArgs(w1, w2) ==
  LET one(b, rk, cols) == [action |-> b, rank |-> rk, ads |-> IF b = 1 THEN 0 ELSE w1,
                           cols |-> IF rk = 2 THEN cols ELSE 0,
                           width |-> IF b = 1 THEN w1 ELSE w2]
  IN  { <<one(1, 2, c)>> : c \in 1..MaxCols }
      \cup { <<one(1, r1, c), one(b, r2, c)>> :
             <<r1, r2>> \in {<<2, 2>>, <<0, 2>>, <<2, 0>>}, b \in 1..2, c \in 1..MaxCols }

\* The number of values of the arguments (buildArgumentStore, not chained).
RECURSIVE ValuesOfArgs(_, _, _)
ValuesOfArgs(as, rows, i) ==
  IF i > Len(as) THEN 0
  ELSE (IF as[i].rank = 2 THEN rows * as[i].cols ELSE 1) + ValuesOfArgs(as, rows, i + 1)

\* A function of matrices, in a chain (its derivatives are the blocks of the
\* chain) or alone (its derivatives are the values of its arguments).
FunctionOfMatrixNodes ==
  { [kind |-> "FunctionOfMatrix", noderiv |-> FALSE, continues |-> TRUE, inchain |-> ic,
     rank |-> rk, ncomps |-> nc, argstart |-> 0,
     nderivatives |-> IF ic THEN (IF \E i \in 1..Len(as) : as[i].action = 2 THEN 2 ELSE 1)
                      ELSE ValuesOfArgs(as, rows, 1),
     rows |-> rows, row |-> 0, args |-> as, size |-> [vv \in 1..nc |-> cap]] :
    ic \in BOOLEAN, rk \in {0, 2}, nc \in 1..2, rows \in 1..MaxRows, cap \in {0, 1},
    as \in MatrixArgs(1, 1) }

InitRows ==
  /\ LayoutUnset
  /\ EngineIdle
  /\ SegmentIdle
  /\ sweep = 0
  /\ PrintIdle
  /\ RunIdle(1, 1, FALSE, 0)
  /\ NoNodes
  /\ matrix \in VStackNodes \cup FunctionOfMatrixNodes
  /\ rowjobs = NoRow

\* The stream of a vector holds each active index once.
RowVStackRows ==
  \E nactive \in [1..Len(matrix.args) -> 0..MaxWidth] :
    /\ \A i \in 1..Len(matrix.args) : nactive[i] <= matrix.args[i].width
    /\ RowVStack(nactive)

\* The array of a matrix argument holds indices of its own block, each once.
RowFunctionOfMatrixRows ==
  \E count \in [1..Len(matrix.args) -> 0..MaxWidth] :
    /\ \A i \in 1..Len(matrix.args) :
         count[i] <= (IF matrix.args[i].rank = 2 THEN matrix.args[i].width ELSE 0)
    /\ RowFunctionOfMatrix(count)

NextRows == RowVStackRows \/ RowFunctionOfMatrixRows

SpecRows == InitRows /\ [][NextRows]_vars

\* ---- the inputs of the segment specification ----

\* The numbers of backbone atoms of a chain: 1, 3, 9 and 10 residues, and
\* two that are not a multiple of five.
ChainAtoms == {5, 12, 15, 42, 45, 50}

ChainLists ==
  { <<a>> : a \in ChainAtoms } \cup { <<a, b>> : a \in ChainAtoms, b \in ChainAtoms }
  \cup { <<a, b, c>> : a \in {15, 45}, b \in {15, 45}, c \in {15, 45} }

ConstructSegments ==
  \E style \in {"all", "inter", "intra", "other"}, chains \in ChainLists :
    ParabetaRMSD(style, chains)

NextSegments == ConstructSegments

SpecSegments == InitChain /\ [][NextSegments]_vars

\* ---- the inputs of the PRINT specification ----
\* The files a PRINT writes and the strides it is given; timeseries is read
\* for a colvar file only and gridinput for an xyz file only (an ndx file of
\* a grid is refused at line 226).
PrintStyles == {"colvar", "xyz", "ndx", "grid", "cube", "dot", "pdb"}

PrintStrides == {0, 1, 2}

ConstructPrint ==
  \E tstyle \in PrintStyles, STRIDE \in PrintStrides,
     timeseries \in BOOLEAN, gridinput \in BOOLEAN, averages \in BOOLEAN :
    /\ timeseries => tstyle = "colvar"
    /\ gridinput => tstyle = "xyz"
    /\ PrintConstruct(tstyle, STRIDE, timeseries, gridinput, averages)

NextPrint == ConstructPrint \/ PrintStep \/ PrintUpdate \/ RunFinalJobs

SpecPrint == InitChain /\ [][NextPrint]_vars

\* ---- the inputs of the executor specification ----
\* The chain src -> sum -> f: a vector of n elements, a scalar computed
\* from it and a third node with the component c3 (a second scalar, or a
\* vector of n elements), each constructed with done_in_chain set and the
\* vector as its argument (the state ConstructLayout leaves behind for them).
RunChain(n, c3) ==
  /\ nnodes = 3
  /\ comps = [k \in Nodes |-> IF k = 1 THEN <<Vector(n)>>
                               ELSE IF k = 2 THEN <<Scalar>>
                               ELSE IF k = 3 THEN <<c3>> ELSE <<>>]
  /\ args = [k \in Nodes |-> IF k \in {2, 3} THEN << <<1, 1>> >> ELSE <<>>]
  /\ natoms = [k \in Nodes |-> 0]
  /\ cannotFollow = [k \in Nodes |-> {}]
  /\ done_in_chain = [k \in Nodes |-> k \in {2, 3}]
  /\ action_to_do_before = [k \in Nodes |-> IF k \in {2, 3} THEN k - 1 ELSE NULL]
  /\ action_to_do_after = [k \in Nodes |-> IF k \in {1, 2} THEN k + 1 ELSE NULL]
  /\ arg_der_start = [k \in Nodes |-> IF k <= 3 THEN <<0>> ELSE <<>>]
  /\ nderivatives = [k \in Nodes |-> 0]
  /\ err = "none"
  /\ last = [NoCall EXCEPT !.op = "build", !.act = 3, !.res = "chained"]

\* Task counts around the multiples of ThreadGrain, where the number of
\* threads changes.
TaskCounts ==
  { n \in 0..MaxTasks : n < 3 \/ (n % ThreadGrain) \in {0, 1, ThreadGrain - 1} }

InitRun ==
  \E n \in TaskCounts, P \in 1..MaxProcs, D \in 0..MaxThreads, ser \in BOOLEAN,
     vec \in BOOLEAN :
     /\ RunChain(n, IF vec THEN Vector(n) ELSE Scalar)
     /\ LayoutUnset
     /\ ExtIdle
     /\ RunIdle(P, D, ser, n)

ForwardRun == \E h \in 1..nnodes : RunAllTasks(h)

TaskRun == \E t \in DOMAIN tpc : RunTask(t)

EnterRun == \E t \in DOMAIN tpc : EnterCritical(t)

MergeRun == \E t \in DOMAIN tpc : Merge(t)

ForcesRun == \E h \in 1..nnodes, forced \in BOOLEAN : CheckForForces(h, forced)

NextRun ==
  \/ ForwardRun
  \/ TaskRun
  \/ EnterRun
  \/ MergeRun
  \/ NextProcess
  \/ FinishPass
  \/ ForcesRun

SpecRun == InitRun /\ [][NextRun]_vars

\* ---- the inputs of the thread-count specification ----
\* A number of threads whose product with ThreadGrain does not fit in 32
\* bits.
ManyThreads == 429496730

InitThreads ==
  \E n \in 0..MaxTasks, P \in 1..MaxProcs,
     D \in (0..MaxThreads) \cup {ManyThreads}, ser \in BOOLEAN :
     /\ RunChain(n, Scalar)
     /\ LayoutUnset
     /\ ExtIdle
     /\ RunIdle(P, D, ser, n)

\* Lines 172-188 of runAllTasks on the first action of the chain.
ThreadsForward ==
  /\ pc = "idle"
  /\ LET r == GetNumberOfTasks(comps, args, action_to_do_after, 1, 0)
     IN  /\ ntasks' = r.ntasks
         /\ head' = 1
         /\ nactive_tasks' = r.ntasks
         /\ nt' = NumThreads(desired, Stride, r.ntasks)
  /\ pc' = "threads"
  /\ mode' = "forward"
  /\ step' = [NoStep EXCEPT !.op = "threads"]
  /\ UNCHANGED <<chainVars, bufsize, nprocs, desired, serial, rank, buffer,
                 forcesForApply, omp_buffer, tpc, iter, sched, ranby, ranforces>>
  /\ UNCHANGED extVars

\* Lines 366-373 of checkForForces on the same node.
ThreadsForces ==
  /\ pc = "threads"
  /\ mode = "forward"
  /\ nt' = NumThreads(desired, Stride, nactive_tasks)
  /\ mode' = "forces"
  /\ step' = [NoStep EXCEPT !.op = "threads"]
  /\ UNCHANGED <<chainVars, layoutVars, nprocs, desired, serial, pc, rank, head,
                 nactive_tasks, buffer, forcesForApply, omp_buffer, tpc, iter,
                 sched, ranby, ranforces>>
  /\ UNCHANGED extVars

NextThreads == ThreadsForward \/ ThreadsForces

SpecThreads == InitThreads /\ [][NextThreads]_vars

\* ------------------------------------------------------------ chain claims

RECURSIVE NoRevisit(_, _)
NoRevisit(n, seen) ==
  IF n = NULL THEN TRUE
  ELSE IF n \in seen THEN FALSE
  ELSE NoRevisit(action_to_do_after[n], seen \cup {n})

\* x comes before y in the chain of y.
RECURSIVE Precedes(_, _)
Precedes(x, y) ==
  /\ action_to_do_before[y] # NULL
  /\ \/ action_to_do_before[y] = x
     \/ Precedes(x, action_to_do_before[y])

\* C1: after any sequence of buildArgumentStore calls (and of the
\* addActionToChain calls they make) the before/after links form disjoint
\* acyclic linear chains: x.after = y exactly when y.before = x, no node has
\* two predecessors or two successors, and following the after links from any
\* node never comes back to a node already passed.
C1_ChainsAreLinear ==
  /\ \A x, y \in Nodes :
        (action_to_do_after[x] = y) <=> (action_to_do_before[y] = x)
  /\ \A y \in Nodes : Cardinality({ x \in Nodes : action_to_do_after[x] = y }) <= 1
  /\ \A y \in Nodes : Cardinality({ x \in Nodes : action_to_do_before[x] = y }) <= 1
  /\ \A n \in Nodes : NoRevisit(n, {})

\* A chain of three nodes has been built, the last one by buildArgumentStore.
C1_Witness ==
  /\ last.op = "build" /\ last.res = "chained"
  /\ \E a, b \in Nodes :
        /\ action_to_do_after[a] = b
        /\ action_to_do_after[b] = last.act

\* C5 (as amended): adding a node Y to a chain that lacks a label X which Y
\* requires raises no ordering error for it: the call returns false and links
\* nothing when some component of X is not stored; and when every required
\* label is in the chain the call, unless it throws for a pair of nodes
\* already in the chain, returns true with Y linked after each of them.
C5_RejectedNotAnError ==
  (last.op = "add" /\ ~last.present) =>
     /\ (last.missing = "unstored" =>
           /\ last.res = "false"
           /\ err = "none"
           /\ action_to_do_before[last.act] = NULL)
     /\ (last.missing = "none" /\ last.res # "error" =>
           /\ last.res = "true"
           /\ \A X \in last.alabels : Precedes(X, last.act))

\* Y was offered to a chain that lacks a required X, and was turned away.
C5_Witness ==
  /\ last.op = "add" /\ ~last.present
  /\ last.missing = "unstored"
  /\ last.res = "false"

\* C5 (as claimed): adding Y while a required X is not yet in the chain
\* raises the ordering error.
C5_OrderingErrorRaised ==
  (last.op = "add" /\ ~last.present /\ last.missing # "none") => err = "order"

\* C6 (as claimed): when a node asks to be fused and addActionToChain
\* returns false for each of its candidate arguments, buildArgumentStore does
\* not abort: the node exists, has no predecessor, and each of its rank>0
\* arguments is stored.
C6_FallsBackToStore ==
  (last.op = "build" /\ last.res = "notadded" /\ last.tried > 0) =>
     /\ err = "none"
     /\ nnodes >= last.act
     /\ action_to_do_before[last.act] = NULL
     /\ \A i \in 1..Len(args[last.act]) :
           ValueOf(comps, args[last.act][i]).rank > 0
             => ValueOf(comps, args[last.act][i]).stored

\* C7: addActionToChain called with a node whose label is already in the
\* chain returns true, raises no error and changes no link.
C7_PresentIsNoOp ==
  [][ (last'.op = "add" /\ last'.present) =>
        /\ last'.res = "true"
        /\ err' = "none"
        /\ action_to_do_before' = action_to_do_before
        /\ action_to_do_after' = action_to_do_after ]_vars

\* A node in the middle or at the end of a chain was added to it again.
C7_Witness ==
  /\ last.op = "add" /\ last.present /\ last.res = "true"
  /\ action_to_do_before[last.act] # NULL

C24_OnlyTheTailLink ==
  [][ \A act \in 1..nnodes :
        (last'.op = "add" /\ last'.act = act) =>
          /\ (last'.res = "true" /\ ~last'.present) =>
                \E t \in 1..nnodes :
                   /\ action_to_do_after[t] = NULL
                   /\ action_to_do_after' = [action_to_do_after EXCEPT ![t] = act]
                   /\ action_to_do_before' = [action_to_do_before EXCEPT ![act] = t]
                   /\ \A y \in 1..nnodes :
                         (y = t \/ Precedes(y, t)) => Precedes(y, act)'
                   /\ \A a, b \in {y \in 1..nnodes : y = t \/ Precedes(y, t)} :
                         Precedes(a, b) <=> Precedes(a, b)'
          /\ last'.res = "false" =>
                /\ action_to_do_after' = action_to_do_after
                /\ action_to_do_before' = action_to_do_before ]_vars

\* A node was linked behind a chain of two nodes by a direct call.
C24_Witness ==
  /\ last.op = "add" /\ last.res = "true" /\ ~last.present
  /\ action_to_do_before[last.act] # NULL
  /\ action_to_do_before[action_to_do_before[last.act]] # NULL

\* ----------------------------------------------------------- layout claims

\* The nodes of the chain that starts at h, and their components.
ChainOf(h) ==
  LET l == GetAllActionLabelsInChain(action_to_do_after, h, <<>>)
  IN  { l[i] : i \in 1..Len(l) }

ChainValues(h) ==
  { v \in Nodes \X (1..MaxComps) : v[1] \in ChainOf(h) /\ v[2] <= Len(comps[v[1]]) }

\* The task-domain cardinality of a component: the first dimension of its
\* shape, the number of values of a grid, the number of values of the first
\* argument of its node for a scalar.
Cardinality_(v) ==
  LET c == ValueOf(comps, v)
  IN  IF c.rank = 0 THEN ValueOf(comps, args[v[1]][1]).nvals
      ELSE IF c.hasDeriv THEN c.nvals ELSE c.shape0

RECURSIVE SumOver(_, _)
SumOver(S, f) ==
  IF S = {} THEN 0
  ELSE LET x == CHOOSE y \in S : TRUE IN f[x] + SumOver(S \ {x}, f)

\* C8 (as claimed): getNumberOfTasks run from the first action of a chain
\* raises the "mismatched numbers of tasks" error whenever a component of a
\* node of the chain has a task-domain cardinality other than the task count
\* of the first action.
C8_MismatchAlwaysRaised ==
  (last.op = "tasks" /\ last.res \in {"ok", "mismatch"}) =>
     ((\E v \in ChainValues(last.act) :
          Cardinality_(v) # Cardinality_(<<last.act, 1>>))
        => err = "mismatch")

\* C10: after getSizeOfBuffer has run from the first action of a chain the
\* regions [bufstart, bufstart + data length) of the components of the chain
\* are pairwise disjoint, and bufsize is the sum of the numbers of values of
\* the stored vectors of the chain plus 1 + the derivative count for each of
\* its scalars with derivatives.
C10_BufferRegions ==
  (last.op = "size") =>
     LET V == ChainValues(last.act)
         len(v) == DataSize(ValueOf(comps, v), nderivatives[v[1]])
         region(v) == { k \in 0..bufsize :
                          /\ ValueOf(comps, v).bufstart <= k
                          /\ k < ValueOf(comps, v).bufstart + len(v) }
         storedLen(v) ==
           LET c == ValueOf(comps, v)
           IN  (IF c.rank > 0 /\ c.stored THEN c.nvals ELSE 0)
               + (IF c.rank = 0 /\ c.hasDeriv THEN 1 + nderivatives[v[1]] ELSE 0)
     IN  /\ \A v, w \in V : v # w => region(v) \cap region(w) = {}
         /\ \A v \in V : ValueOf(comps, v).bufstart + len(v) <= bufsize
         /\ bufsize = SumOver(V, [v \in V |-> storedLen(v)])

\* getSizeOfBuffer has laid out a chain that holds a stored vector and,
\* after it, a scalar with derivatives.
C10_Witness ==
  /\ last.op = "size"
  /\ \E v, w \in ChainValues(last.act) :
        /\ ValueOf(comps, v).rank > 0 /\ ValueOf(comps, v).stored
        /\ ValueOf(comps, v).nvals > 0
        /\ ValueOf(comps, w).rank = 0 /\ nderivatives[w[1]] > 0
        /\ ValueOf(comps, w).bufstart > 0

\* C27: getNumberOfTasks run from the first action of a chain raises no
\* error when every component of every node of the chain has the task-domain
\* cardinality of the first action: a node of the chain with a scalar
\* component and more than one argument, each as long as the first action's
\* vector, is accepted.
C27_ConsistentChainAccepted ==
  (/\ last.op = "tasks" /\ last.res \in {"ok", "mismatch"}
   /\ \A v \in ChainValues(last.act) :
         /\ Cardinality_(v) = Cardinality_(<<last.act, 1>>)
         /\ ValueOf(comps, v).rank = 0 =>
              \A a \in 1..Len(args[v[1]]) :
                 ValueOf(comps, args[v[1]][a]).nvals = Cardinality_(<<last.act, 1>>))
    => err = "none"

\* ----------------------------------------------------------- stream claims

\* The Values the nodes of the chain that starts at h take as arguments.
ChainArguments(h) ==
  UNION { { args[n][i] : i \in 1..Len(args[n]) } : n \in ChainOf(h) }

\* C12: after getNumberOfStreamedQuantities has run from the first action of
\* a chain with a zero counter, the count is the sum over the nodes of the
\* chain of (number of arguments + number of components), every stream
\* position a Value of the chain holds is below the count, and no two Values
\* of the chain (arguments or components) hold the same position.
C12_StreamPositions ==
  (last.op = "quants") =>
     LET ch == ChainOf(last.act)
         V  == ChainValues(last.act) \cup ChainArguments(last.act)
     IN  /\ nquantities = SumOver(ch, [n \in ch |-> Len(args[n]) + Len(comps[n])])
         /\ \A v \in V : streampos[v] < nquantities
         /\ \A v, w \in V : v # w => streampos[v] # streampos[w]

\* The stream of a chain of three nodes has been laid out, in which a
\* component of one node is an argument of two later ones.
C12_Witness ==
  /\ last.op = "quants"
  /\ Cardinality(ChainOf(last.act)) = 3
  /\ \E v \in ChainValues(last.act) :
        Cardinality({ n \in ChainOf(last.act) :
                        n # v[1] /\ \E i \in 1..Len(args[n]) : args[n][i] = v }) = 2

\* The derivatives node n adds to the width: the values of its stored
\* arguments, and three per atom and nine for the virial when it has atoms.
OwnDerivatives(n) ==
  LET I == 1..Len(args[n])
  IN  SumOver(I, [i \in I |-> IF ValueOf(comps, args[n][i]).stored
                               THEN ValueOf(comps, args[n][i]).nvals ELSE 0])
      + (IF natoms[n] > 0 THEN 3 * natoms[n] + 9 ELSE 0)

\* C13: getNumberOfStreamedDerivatives run from the first action of a chain
\* with zero counters returns the sum over the nodes of the chain of the
\* derivatives each adds, and every node is called with the sum over the
\* nodes before it.
C13_DerivativeWidth ==
  (last.op = "derivs") =>
     LET l == GetAllActionLabelsInChain(action_to_do_after, last.act, <<>>)
         partial(k) == SumOver(1..(k - 1), [j \in 1..(k - 1) |-> OwnDerivatives(l[j])])
     IN  /\ nderiv.nder = partial(Len(l) + 1)
         /\ \A k \in 1..Len(l) : nderiv.entry[l[k]] = partial(k)

\* The width of a chain has been computed whose first action has atoms and
\* whose last node has a stored argument.
C13_Witness ==
  /\ last.op = "derivs"
  /\ natoms[last.act] > 0
  /\ \E n \in ChainOf(last.act) :
        /\ action_to_do_after[n] = NULL
        /\ nderiv.entry[n] > 0
        /\ nderiv.nder > nderiv.entry[n]

\* ------------------------------------------------------------- task claims

\* The region of the buffer that getSizeOfBuffer gave to the Value v.
OwnRegion(v) ==
  LET c == ValueOf(comps, v)
  IN  c.bufstart..(c.bufstart + DataSize(c, nderivatives[v[1]]) - 1)

InsideBuffer(t) == t.index \in 0..(bufsize - 1) /\ t.index \in OwnRegion(t.v)

\* C11 (as claimed): every element of the buffer that gatherAccumulators
\* writes for a component, for every task, and every element that
\* finishComputations reads for it, has an index in [0, bufsize) that lies
\* in the region of that component.
C11_GatherInsideBuffer ==
  step.op \in {"gather", "finish"} => \A t \in touched : InsideBuffer(t)


\* The nodes of the running chain that are FunctionOfVectors fused after the
\* producers of their rank 1 arguments, in a task that every node of the
\* chain has performed and every argument has an element for.
FusedFunctions ==
  { b \in ChainOf(head) :
      /\ action_to_do_before[b] # NULL
      /\ Len(args[b]) > 0
      /\ \A j \in 1..Len(args[b]) : /\ ValueOf(comps, args[b][j]).rank = 1
                                    /\ itask < ValueOf(comps, args[b][j]).nvals
      /\ \A n \in ChainOf(head) : active[n] }

\* The same task of node b run on its own: its arguments stored by its
\* constructor (buildArgumentStore, line 116), element itask of each holding
\* what the producer computed for the task, and b not in a chain.
StandaloneRun(b) ==
  LET stored == BuildDataStores(comps, args[b], 0)
      full(v) == [j \in 1..ValueOf(comps, v).nvals |->
                    IF j = itask + 1 THEN myvals.val[streampos[v]] ELSE 0]
      isArg(v) == \E j \in 1..Len(args[b]) : args[b][j] = v
      dat == [v \in AllValues |-> IF isArg(v) THEN full(v) ELSE data[v]]
      vset == [v \in AllValues |-> isArg(v) \/ value_set[v]]
      width == SumOfValues(comps, args[b], 1)
  IN  PerformTask(stored, args, natoms, [action_to_do_before EXCEPT ![b] = NULL],
                  streampos, arg_der_start, dat, vset, b, itask,
                  NewMultiValue(nquantities, width))

AfterRunTask == step.op = "task" /\ mode = "forward" /\ err = "none"

SameValues(b) ==
  \A i \in 1..Len(comps[b]) :
     StandaloneRun(b).val[streampos[<<b, i>>]] = myvals.val[streampos[<<b, i>>]]

\* The active derivative indices and the derivatives at them.
Derivatives(mv, q) == { <<k, mv.der[q][k]>> : k \in mv.act[q] }

SameDerivatives(b) ==
  \A i \in 1..Len(comps[b]) :
     Derivatives(StandaloneRun(b), streampos[<<b, i>>])
       = Derivatives(myvals, streampos[<<b, i>>])

\* Node b has one argument, and it is a coordinate of an atom.
OfOneSource(b) ==
  /\ Len(args[b]) = 1
  /\ Len(args[args[b][1][1]]) = 0
  /\ natoms[args[b][1][1]] > 0

\* C16 (as claimed): a FunctionOfVector fused in the chain of the producer of
\* its argument computes, for every task, the values and the derivatives it
\* computes when the argument is stored and it runs on its own.
C16_FusedEqualsStandalone ==
  AfterRunTask => \A b \in FusedFunctions : SameValues(b) /\ SameDerivatives(b)

\* C16: fused or on its own, a FunctionOfVector computes the same values for
\* every task.  Its derivatives are the same when its one argument is a
\* coordinate source; fused after an argument that has no derivative active
\* for the task it has none, while on its own it has one for each argument,
\* at the index of the task.
C16_FusedValuesEqualStandalone ==
  AfterRunTask =>
    \A b \in FusedFunctions :
       /\ SameValues(b)
       /\ OfOneSource(b) => SameDerivatives(b)
       /\ (\A j \in 1..Len(args[b]) : myvals.act[streampos[args[b][j]]] = {})
            => /\ myvals.act[streampos[<<b, 1>>]] = {}
               /\ StandaloneRun(b).act[streampos[<<b, 1>>]] # {}

\* C16 happens: a function fused after a coordinate source has performed a
\* task after the first, and its value and derivative are not zero.
C16_Witness ==
  /\ AfterRunTask
  /\ itask > 0
  /\ \E b \in FusedFunctions :
        /\ OfOneSource(b)
        /\ myvals.val[streampos[<<b, 1>>]] # 0
        /\ \E k \in myvals.act[streampos[<<b, 1>>]] :
              myvals.der[streampos[<<b, 1>>]][k] # 0

\* The active nodes of the running chain, first node first.
ActiveChain ==
  SelectSeq(GetAllActionLabelsInChain(action_to_do_after, head, <<>>),
            LAMBDA n : active[n])

CallsOf(f) == [i \in 1..Len(ActiveChain) |-> <<f, ActiveChain[i]>>]

\* C19: in the task loop of runAllTasks the scratch is cleared when a task
\* starts; runTask calls performTask on the active nodes of the chain, first
\* node first, each once; gatherAccumulators then does its work on the same
\* nodes in the same order, after the last performTask; and the scratch is
\* cleared again before the next task.  A node that is not active is left
\* out of both, the nodes after it are not.
C19_TaskProtocol ==
  (mode = "forward" /\ err = "none") =>
     /\ phase = "runTask" => Cleared(myvals) /\ trace = <<>>
     /\ phase = "gather" => trace = CallsOf("performTask")
     /\ phase = "clear" =>
          trace = CallsOf("performTask") \o CallsOf("gatherAccumulators")
     /\ step.op = "clear" => Cleared(myvals) /\ itask > 0

\* C19 happens: the second task of a chain of three nodes, the second of
\* which is not active, has been performed and gathered, and the scratch
\* holds what the task computed.
C19_Witness ==
  /\ mode = "forward"
  /\ phase = "clear"
  /\ itask = 1
  /\ GetAllActionLabelsInChain(action_to_do_after, head, <<>>) = <<1, 2, 3>>
  /\ ~active[2]
  /\ Len(trace) = 4
  /\ ~Cleared(myvals)

\* C25: when performTask has been run for a task, every derivative index of
\* a component of a FunctionOfVector of the chain that holds a contribution
\* is in the list of active indices of that component, also when two
\* arguments of the node have the same derivative-start offset and different
\* active indices.
C25_ContributionsRegistered ==
  (phase = "gather" /\ mode = "forward" /\ err = "none") =>
     \A n \in ChainOf(head) :
        (Len(args[n]) > 0 /\ action_to_do_before[n] # NULL /\ active[n]) =>
           \A i \in 1..Len(comps[n]) :
              LET ostrn == streampos[<<n, i>>]
              IN  \A k \in DOMAIN myvals.der[ostrn] :
                     myvals.der[ostrn][k] # 0 => k \in myvals.act[ostrn]

\* C26: in every chain and for every task, the derivative-start offset of a
\* component of the chain plus any derivative index active for that
\* component, which is the index a node of the chain writes for it as
\* argument, is smaller than the number of derivatives
\* getNumberOfStreamedDerivatives returned, which is the size of the scratch
\* and of the force vector: every offset leaves room for the derivatives of
\* its component.
C26_OffsetsInsideWidth ==
  (phase = "gather" /\ mode = "forward" /\ err = "none") =>
     \A v \in ChainValues(head) :
        \A kind \in myvals.act[streampos[v]] :
           arg_der_start[v[1]][v[2]] + kind < nderiv.nder

\* ------------------------------------------------------------ force claims

\* The node whose apply() is called next.
ApplyingNode == nnodes - applying

\* C14: when no component of any node of a chain has a force, apply() of
\* the first node of the chain finds checkForForces false: forcesForApply is
\* neither resized nor written, the task loop is not entered, and
\* addForcesToInput is not called, so no atom and no argument is given a
\* force.
C14_NoForceNoPass ==
  [][ ( /\ Apply
        /\ action_to_do_before[ApplyingNode] = NULL
        /\ \A v \in ChainValues(ApplyingNode) : ~hasForce[v] )
      => ( /\ ~applied'.returned
           /\ ~applied'.addForcesToInput
           /\ applied'.node = ApplyingNode
           /\ forcesForApply' = forcesForApply
           /\ phase' = "none"
           /\ myvals' = myvals
           /\ atomForces' = atomForces
           /\ argForces' = argForces ) ]_vars

\* C14 happens: apply() of the first node of a chain of several nodes has
\* returned without calling addForcesToInput while a Value of another
\* chain had a force.
C14_Witness ==
  /\ applied.node # NULL
  /\ action_to_do_before[applied.node] = NULL
  /\ action_to_do_after[applied.node] # NULL
  /\ ~applied.returned
  /\ \A v \in ChainValues(applied.node) : ~hasForce[v]
  /\ \E v \in ValuesSoFar : hasForce[v]

\* C15 (as claimed): when checkForForces has run the force pass and returned
\* true, forcesForApply has one element per derivative of the chain and each
\* element is the sum over the tasks of what gatherForces added for the task,
\* also when the pass ran on one thread.
C15_ForcesAreSumOfContributions ==
  (step.op = "sum" /\ mode = "none" /\ applied.returned /\ applied.node = head)
     => /\ Len(forcesForApply[0]) = nderiv.nder
        /\ forcesForApply[0] = contrib

\* The chain src -> sq -> sum: a coordinate source, the vector of the squares
\* of its elements fused after it, the scalar sum of those fused after that,
\* nothing stored, and a force on the sum alone.
SrcSqSum ==
  /\ nnodes = 3
  /\ Len(args[1]) = 0 /\ natoms[1] = NAtomsTask
  /\ args[2] = << <<1, 1>> >> /\ comps[2][1].rank = 1
  /\ args[3] = << <<2, 1>> >> /\ comps[3][1].rank = 0
  /\ action_to_do_after = <<2, 3, NULL>>
  /\ \A n \in 1..3 : ~comps[n][1].stored
  /\ \A v \in AllValues : hasForce[v] <=> v = <<3, 1>>

\* Element i of src (LeafPerformTask).
Src(i) == i + 1

\* C17: in the chain src -> sq -> sum, with a force on the output of sum,
\* apply() of sum hands the atoms of src the force times 2*src[i] for each
\* element i of src; the force vector is nonzero on one contiguous block, the
\* elements of src, which lies inside the derivatives of the output.
C17_ForceOnSource ==
  (SrcSqSum /\ applied.node = 3)
     => /\ applied.returned /\ applied.addForcesToInput
        /\ Len(forcesForApply[0]) = nderivatives[3]
        /\ \A i \in 0..(SourceLength - 1) :
              atomForces[1][i + 1] = ForceValue * 2 * Src(i)
        /\ { k \in DOMAIN forcesForApply[0] : forcesForApply[0][k] # 0 }
             = 1..SourceLength
        /\ SourceLength <= nderivatives[3]
        /\ atomForces[1] = forcesForApply[0]

\* C17 happens: apply() of sum has returned in the chain src -> sq -> sum
\* with the force on sum.
C17_Witness ==
  /\ SrcSqSum
  /\ applied.node = 3
  /\ step.op = "base"
  /\ atomForces[1] # <<>>

\* ----------------------------------------------------------- matrix claims

\* A row of the matrix node has been finished.
RowDone == matrix.kind # "none" /\ matrix.row > 0

\* No position at or beyond the size of an array was assigned.
WritesInside == \A w \in rowjobs.writes : w.pos < rowjobs.size[w.comp]

\* setNumberOfMatrixRowDerivatives was called once for component vv.
CalledOnce(vv) ==
  Cardinality({k \in 1..Len(rowjobs.calls) : rowjobs.calls[k].comp = vv}) = 1

\* Every count that was set is at most the size of its array.
CountsInside ==
  \A k \in 1..Len(rowjobs.calls) : rowjobs.calls[k].n <= rowjobs.size[rowjobs.calls[k].comp]

\* C18: for a VStack or FunctionOfMatrix node and every row, runEndOfRowJobs
\* assigns no position of a row-derivative index array at or beyond its
\* size, and calls setNumberOfMatrixRowDerivatives exactly once for each
\* component of the node, with a count that is at most that size.
C18_RowDerivativesInsideCapacity ==
  RowDone =>
    /\ WritesInside
    /\ \A vv \in 1..matrix.ncomps : CalledOnce(vv)
    /\ CountsInside

\* ---------------------------------------------------------- segment claims

\* The constructor has returned without calling error().
SegmentsMade == rmsd.style # "none" /\ rmsd.fault # "error"

\* The residues of chain c (counted from 1), counted from 0.
ResiduesOf(c) == 0..((rmsd.chains[c] \div 5) - 1)

\* The atoms from position off + 1 of nlist on are the 15 backbone atoms of
\* the residues r, r + 1, r + 2 of chain c.
StrandIs(nlist, off, c, r) ==
  /\ r \in ResiduesOf(c) /\ (r + 2) \in ResiduesOf(c)
  /\ \A k \in 0..14 : nlist[off + 1 + k] = AtomsBefore(rmsd.chains, c - 1) + 5 * r + k

\* The pairs of strands of one chain with at least 3 residues between them.
IntraDocumented ==
  { p \in (1..3) \X (0..9) \X (1..3) \X (0..9) :
      /\ p[1] \in 1..Len(rmsd.chains) /\ p[3] = p[1]
      /\ p[2] \in ResiduesOf(p[1]) /\ (p[2] + 2) \in ResiduesOf(p[1])
      /\ p[4] \in ResiduesOf(p[3]) /\ (p[4] + 2) \in ResiduesOf(p[3])
      /\ p[4] - (p[2] + 3) >= 3 }

\* The pairs of strands of two different chains, the later chain first.
InterDocumented ==
  { p \in (1..3) \X (0..9) \X (1..3) \X (0..9) :
      /\ p[1] \in 1..Len(rmsd.chains) /\ p[3] \in 1..Len(rmsd.chains)
      /\ p[1] > p[3]
      /\ p[2] \in ResiduesOf(p[1]) /\ (p[2] + 2) \in ResiduesOf(p[1])
      /\ p[4] \in ResiduesOf(p[3]) /\ (p[4] + 2) \in ResiduesOf(p[3]) }

\* Segment k pairs the strands of p.
SegmentIs(k, p) ==
  /\ StrandIs(segments[k].nlist, 0, p[1], p[2])
  /\ StrandIs(segments[k].nlist, 15, p[3], p[4])

\* The segments are those of the set D, each once.
ExactlyThose(D) ==
  /\ Len(segments) = Cardinality(D)
  /\ \A k \in 1..Len(segments) : \E p \in D : SegmentIs(k, p)
  /\ \A p \in D : \E k \in 1..Len(segments) : SegmentIs(k, p)

\* C20: the segments PARABETARMSD generates are the documented ones: every
\* segment pairs two strands of three contiguous residues; with STYLE=intra
\* the segments are the pairs of strands of one chain with at least 3 residues
\* between them, with STYLE=inter the pairs of strands of two different
\* chains, with STYLE=all the intra pairs followed by the inter pairs; and
\* the segments are numbered 1..m in order.
C20_SegmentsAsDocumented ==
  SegmentsMade =>
    /\ \A k \in 1..Len(segments) : segments[k].num = k
    /\ rmsd.style = "intra" => ExactlyThose(IntraDocumented)
    /\ rmsd.style = "inter" => ExactlyThose(InterDocumented)
    /\ rmsd.style = "all" =>
         /\ ExactlyThose(IntraDocumented \cup InterDocumented)
         /\ \A k \in 1..Len(segments) : \A l \in (k + 1)..Len(segments) :
              ~((\E p \in InterDocumented : SegmentIs(k, p))
                /\ (\E p \in IntraDocumented : SegmentIs(l, p)))

\* The number of backbone atoms of all the chains.
TotalAtoms == AtomsBefore(rmsd.chains, Len(rmsd.chains))

\* C29: for every STYLE and every list of chain lengths that passes the input
\* checks, the segment generation ends with a finite list (no loop runs on
\* past its chain because its unsigned bound nres-8 or nres-2 wrapped) and
\* each of the 30 atom indices of every segment is below the number of
\* backbone atoms.
C29_SegmentsInsideBackbone ==
  SegmentsMade =>
    /\ rmsd.fault # "cut"
    /\ \A k \in 1..Len(segments) : \A j \in 1..30 : segments[k].nlist[j] < TotalAtoms

\* --------------------------------------------------------- executor claims

\* The slots task i adds to, and the sum of the contributions of all tasks.
Contribution(i) ==
  GatherAccumulators(comps, action_to_do_after, head, i, Zeros(bufsize))

ExpectedBuffer ==
  LET RECURSIVE total(_, _)
      total(i, sl) == IF i < 0 THEN 0 ELSE Contribution(i)[sl] + total(i - 1, sl)
  IN  [sl \in 1..bufsize |-> total(comps[head][1].shape0 - 1, sl)]

\* C2: the buffer runAllTasks hands to finishComputations is, slot by slot,
\* the sum over every task index of the contribution of that task, in every
\* process, whatever the numbers of threads and of processes, with or without
\* SERIAL, and however the threads were interleaved.
C2_BufferIsSumOfTasks ==
  (pc = "finished" /\ mode = "forward") =>
     \A p \in 0..(nprocs - 1) : buffer[p] = ExpectedBuffer

\* A pass of two processes of two threads each has finished.
C2_Witness ==
  /\ pc = "finished" /\ mode = "forward"
  /\ nt = 2 /\ nprocs = 2 /\ ~serial
  /\ buffer[0][1] > 0 /\ buffer[1][2] > 0

\* C3: in a forward pass no task is run twice by a process; when the pass
\* has finished, without SERIAL task i has been run by the process of rank
\* i mod P alone, by one of its threads, and with SERIAL every process has
\* run every task once.
C3_EachTaskOnce ==
  /\ \A p \in DOMAIN ranby : \A i \in DOMAIN ranby[p] : Len(ranby[p][i]) <= 1
  /\ (pc = "finished") =>
        \A p \in 0..(nprocs - 1) : \A i \in 0..(comps[head][1].shape0 - 1) :
           Len(ranby[p][i]) = (IF serial \/ p = i % nprocs THEN 1 ELSE 0)

\* Two processes of two threads each have shared the tasks.
C3_Witness ==
  /\ pc = "finished" /\ ~serial /\ nprocs = 2 /\ nt = 2
  /\ \E i, j \in DOMAIN ranby[0] : ranby[0][i] = <<0>> /\ ranby[0][j] = <<1>>
  /\ \E i, j \in DOMAIN ranby[1] : ranby[1][i] = <<0>> /\ ranby[1][j] = <<1>>

\* C4 (as amended): at most one thread is inside the critical section; a
\* task of a region of more than one thread, and every task of
\* checkForForces, is handed the private buffer of its thread and leaves
\* buffer and forcesForApply alone, while a task of a region of runAllTasks
\* with a single thread accumulates straight into buffer; inside the region
\* buffer and forcesForApply change in no other step than the merge.
C4_SharedOnlyInMerge ==
  /\ [](Cardinality({ t \in DOMAIN tpc : tpc[t] = "critical" }) <= 1)
  /\ [][ (pc = "parallel" /\ step'.op = "task") =>
            IF mode = "forward" /\ nt = 1
            THEN step'.wrote = "shared" /\ forcesForApply' = forcesForApply
            ELSE /\ step'.wrote = "private"
                 /\ buffer' = buffer
                 /\ forcesForApply' = forcesForApply ]_vars
  /\ [][ (pc = "parallel" /\ pc' = "parallel"
            /\ (buffer' # buffer \/ forcesForApply' # forcesForApply)) =>
            \/ step'.op = "merge"
            \/ step'.op = "task" /\ mode = "forward" /\ nt = 1 ]_vars

\* A thread has merged its private buffer while the other one is still in
\* its loop.
C4_Witness ==
  /\ pc = "parallel" /\ mode = "forward" /\ nt = 2
  /\ step.op = "merge" /\ step.wrote = "shared"
  /\ \E u \in DOMAIN tpc : tpc[u] = "loop" /\ iter[u] > 0

\* C4 (as claimed): a task only mutates the private buffer of its thread.
C4_TasksWritePrivateOnly ==
  [][ (pc = "parallel" /\ step'.op = "task") =>
        /\ step'.wrote = "private"
        /\ buffer' = buffer
        /\ forcesForApply' = forcesForApply ]_vars

\* C9 (as claimed): whatever the numbers of tasks N, of processes P and of
\* threads asked for D, the region has T = max(1, min(D, floor(N/P/10)))
\* threads, so that T >= 1 and, when T > 1, T*P*10 <= N.
C9_ThreadCount ==
  (pc = "threads") =>
     LET q == (nactive_tasks \div Stride) \div ThreadGrain
         m == IF desired < q THEN desired ELSE q
         T == IF m < 1 THEN 1 ELSE m
     IN  /\ nt = T
         /\ nt >= 1
         /\ (nt > 1 => nt * Stride * ThreadGrain <= nactive_tasks)

\* C28: the force pass of a chain is run by its first action alone.
\* checkForForces of a node that has a predecessor and whose first component
\* has rank>0 returns false, runs no task and leaves forcesForApply as it
\* was; a pass is opened only by the call on the node without predecessor,
\* of which a chain has one, so that one call of apply() per node opens at
\* most one pass; the pass has the number of threads of the forward pass
\* before it, and in every process it runs the task indices that process ran
\* in the forward pass, each once.
C28_ForcePassByHead ==
  /\ [][ \A h \in 1..nnodes : \A forced \in BOOLEAN :
           CheckForForces(h, forced) =>
             /\ (comps[h][1].rank > 0 /\ action_to_do_before[h] # NULL) =>
                   /\ step'.op = "noforces"
                   /\ pc' = pc /\ mode' = mode
                   /\ forcesForApply' = forcesForApply
                   /\ ranforces' = ranforces
             /\ mode' = "forces" =>
                   /\ action_to_do_before[h] = NULL
                   /\ nt' = nt ]_vars
  /\ []((mode = "forces" /\ pc = "finished") =>
          \A p \in 0..(nprocs - 1) : \A i \in DOMAIN ranby[p] :
             /\ Len(ranforces[p][i]) = Len(ranby[p][i])
             /\ Len(ranforces[p][i]) <= 1)

\* A force pass of two processes of two threads each has finished on a
\* chain whose last node makes a vector.
C28_Witness ==
  /\ mode = "forces" /\ pc = "finished"
  /\ nt = 2 /\ nprocs = 2 /\ ~serial
  /\ comps[3][1].rank = 1
  /\ \E i, j \in DOMAIN ranforces[1] : ranforces[1][i] = <<0>> /\ ranforces[1][j] = <<1>>

Place(e) ==
  IF \E i \in 1..Len(trace) : trace[i] = e
  THEN CHOOSE i \in 1..Len(trace) : trace[i] = e /\ \A j \in 1..(i - 1) : trace[j] # e
  ELSE 0

Times(e) == Cardinality({ i \in 1..Len(trace) : trace[i] = e })

\* C21: the phases of runAllTasks follow one another.  buffer is zeroed
\* before any task is run; tasks are run inside the parallel region only;
\* the sum over the processes is made when every thread of every process has
\* run its tasks and left the critical section, and it is made if and only if
\* SERIAL is not set and buffer is not empty; finishComputations comes after
\* the sum and takes the nodes in the order of the chain, each node being
\* copied and then transformed before the next node is entered.
C21_PhasesInOrder ==
  /\ [][ (step'.op = "start" /\ mode' = "forward") =>
           /\ \A p \in 0..(nprocs - 1) : buffer'[p] = Zeros(bufsize')
           /\ \A p \in DOMAIN ranby' : \A i \in DOMAIN ranby'[p] : ranby'[p][i] = <<>> ]_vars
  /\ [][ step'.op = "task" => (pc = "parallel" /\ pc' = "parallel") ]_vars
  /\ [][ (step'.op = "sum" /\ mode = "forward") =>
           /\ rank = nprocs - 1
           /\ \A t \in DOMAIN tpc : tpc[t] = "done"
           /\ \A i \in 0..(nactive_tasks - 1) :
                 \E p \in 0..(nprocs - 1) : Len(ranby[p][i]) = 1 ]_vars
  /\ []((pc = "finished" /\ mode = "forward") =>
          LET sum == <<"comm.Sum", head>>
              copy(n) == <<"finishComputations", n>>
              transform(n) == <<"transformFinalValueAndDerivatives", n>>
          IN  /\ Times(sum) = (IF ~serial /\ bufsize > 0 THEN 1 ELSE 0)
              /\ \A n \in ChainOf(head) :
                    /\ Times(copy(n)) = 1 /\ Times(transform(n)) = 1
                    /\ Place(sum) < Place(copy(n))
                    /\ Place(copy(n)) < Place(transform(n))
                    /\ \A k \in ChainOf(head) :
                          Precedes(n, k) => Place(transform(n)) < Place(copy(k)))

\* A pass of two processes of two threads each has been summed and handed
\* to the three nodes of the chain.
C21_Witness ==
  /\ pc = "finished" /\ mode = "forward"
  /\ nt = 2 /\ nprocs = 2 /\ ~serial /\ bufsize > 0
  /\ Len(trace) = 7

\* ------------------------------------------------------------- print claims
\* The PRINT was told to write at the end of the calculation.
PrintsAtEnd ==
  /\ print.made
  /\ print.STRIDE = 0
  /\ \/ print.tstyle \in {"grid", "cube", "dot"}
     \/ print.timeseries
     \/ print.gridinput

\* C30: a PRINT that was told to write at the end (STRIDE=0 with a grid, a
\* cube, a dot file or a time series) writes nothing in an update() call made
\* before runFinalJobs, writes once in the first runFinalJobs and nothing in
\* a later runFinalJobs.
C30_WrittenOnceAtEnd ==
  PrintsAtEnd =>
    /\ written.update = 0
    /\ written.finals >= 1 => written.first = 1
    /\ written.later = 0

====
